---- MODULE Spec2Model ----
(***************************************************************************)
(* Interop service of neo-go: storage contexts, the staged store of an     *)
(* interop context, and the contract lifecycle handlers.                   *)
(*                                                                         *)
(* Two tiers of state: the committed ledger (ic.bc / ic.DAO reads) and,    *)
(* per interop context, the staged overlay (ic.mem / ic.DAO writes).       *)
(***************************************************************************)
EXTENDS Integers, Sequences, FiniteSets, TLC

(***************************************************************************)
(* Bounds of the model.                                                    *)
(***************************************************************************)
\* handlers and calls run over the life of the ledger (the handlers that only
\* make a storage context are not counted: the set of contexts bounds them)
MaxSteps == 2
\* interop contexts created over the life of the ledger
MaxRuns == 2

(***************************************************************************)
(* Program constants.                                                      *)
(***************************************************************************)
MaxStorageKeyLen == 1024
\* trigger codes
Verification == 0
Application == 16
ApplicationR == 17

Triggers == {Verification, Application, ApplicationR}

\* the interop contexts that may be alive at the same time
Execs == {1, 2}
\* script hashes (the identity of a contract is the hash of its script)
Hashes == {"A", "B"}
MaxContractStringLen == 252
\* contract metadata (name): two names that fit, so that two specs of one script
\* can differ, and one of 253 bytes
Names == {"n1", "n2"}
LongName == "long"
\* and one of exactly 252 bytes
MaxName == "max"
NameLen(n) ==
    IF n = LongName THEN MaxContractStringLen + 1
    ELSE IF n = MaxName THEN MaxContractStringLen ELSE 2

MaxContractDescriptionLen == 65536
MaxContractScriptSize == 1024 * 1024
MaxContractParametersNum == 252
MaxAssetNameLen == 1024
MaxAssetPrecision == 8
BlocksPerYear == 2000000
DefaultAssetLifetime == 1 + BlocksPerYear
\* transaction.AssetType: the four kinds a script may create, and one it may not
GoverningToken == 0
Currency == 8
Token == 96
Share == 144
Invoice == 152
\* util.Satoshi(), the smallest Fixed8 amount, and one whole unit
Satoshi == 1
Fixed8Unit == 100000000

\* A byte string that is b followed by pad zero bytes.
Key(b, pad) == [b |-> b, pad |-> pad]
KeyLen(k) == Len(k.b) + k.pad
\* keys of 1, 1024 and 1025 bytes
Keys == {Key(<<1>>, 0), Key(<<2>>, MaxStorageKeyLen - 1), Key(<<2>>, MaxStorageKeyLen)}

Empty == <<>>
\* values that a script puts
Values == {<<1>>, <<2>>}

(***************************************************************************)
(* Domain types.                                                           *)
(***************************************************************************)
\* StorageItem{Value, IsConst}; NilItem is the nil *StorageItem
NilItem == [nil |-> TRUE, Value |-> Empty, IsConst |-> FALSE]
StorageItem(v, c) == [nil |-> FALSE, Value |-> v, IsConst |-> c]

\* The lengths of the other fields a contract is made from: the script, the
\* parameter list, the version, author, email and description strings.
Sizes(script, params, version, author, email, desc) ==
    [script |-> script, params |-> params, version |-> version, author |-> author,
     email |-> email, desc |-> desc]
\* every field as long as it may be
MaxSizes == Sizes(MaxContractScriptSize, MaxContractParametersNum, MaxContractStringLen,
                  MaxContractStringLen, MaxContractStringLen, MaxContractDescriptionLen)
SizeFields == DOMAIN MaxSizes

\* state.Contract, reduced to its identity (the script hash), the
\* has-storage property, one metadata string and the lengths of the rest
NilContract == [nil |-> TRUE, Script |-> "", HasStorage |-> FALSE, Name |-> "",
                Sizes |-> MaxSizes]
Contract(h, hs, n) == [nil |-> FALSE, Script |-> h, HasStorage |-> hs, Name |-> n,
                       Sizes |-> MaxSizes]
Contracts == {Contract(h, hs, n) : h \in Hashes, hs \in BOOLEAN, n \in Names}

\* A uint32 or uint64 as two limbs, hi * 65536 + lo (heights and expirations
\* reach 2^32 - 1).
Limb == 65536
U(hi, lo) == [hi |-> hi, lo |-> lo]
ToU(n) == U(n \div Limb, n % Limb)
AddU(a, b) == U(a.hi + b.hi + ((a.lo + b.lo) \div Limb), (a.lo + b.lo) % Limb)
LessU(a, b) == a.hi < b.hi \/ (a.hi = b.hi /\ a.lo < b.lo)
MaxUint32 == U(Limb - 1, Limb - 1)
\* the conversion uint32(x), and the sum of two uint32
Uint32(a) == U(a.hi % Limb, a.lo)
AddU32(a, b) == Uint32(AddU(a, b))

\* state.Asset; the name is kept by its length, NilAsset is the nil *Asset
NilAsset == [nil |-> TRUE, ID |-> 0, AssetType |-> 0, NameLen |-> 0, Amount |-> 0,
             Precision |-> 0, Owner |-> "", Admin |-> "", Issuer |-> "",
             Expiration |-> U(0, 0)]

StorageContext(h, ro) == [ScriptHash |-> h, ReadOnly |-> ro]
StorageContexts == {StorageContext(h, ro) : h \in Hashes, ro \in BOOLEAN}

Cells == Hashes \X Keys

\* Entries of the staged overlay: nothing staged, a tombstone, a present value.
NoEntry == [st |-> "none", item |-> NilItem]
Tombstone == [st |-> "del", item |-> NilItem]
Present(si) == [st |-> "put", item |-> si]
NoCsEntry == [st |-> "none", cs |-> NilContract]
CsTombstone == [st |-> "del", cs |-> NilContract]
CsPresent(cs) == [st |-> "put", cs |-> cs]
NoAsEntry == [st |-> "none", as |-> NilAsset]
AsPresent(as) == [st |-> "put", as |-> as]

\* A byte string popped as an argument: its length, its first byte, what the
\* rest spells (the name of a hash or of a key), whether that is a point of
\* the curve, and, for a string of at most five bytes, the bytes themselves.
NoArg == [len |-> 0, first |-> 0, body |-> "", point |-> FALSE, bytes |-> <<>>]
HashArg(len, body) == [NoArg EXCEPT !.len = len, !.body = body]
KeyArg(len, first, body, point) ==
    [NoArg EXCEPT !.len = len, !.first = first, !.body = body, !.point = point]
IntArg(bytes) ==
    [NoArg EXCEPT !.len = Len(bytes), !.bytes = bytes,
                  !.first = IF bytes = <<>> THEN 0 ELSE bytes[1]]

\* util.Uint256{}, the hash of no block
ZeroHash == "zero"

\* Header (the BlockBase fields the accessors read); NilHeader is the nil *Header
NilHeader == [nil |-> TRUE, Index |-> 0, Hash |-> ZeroHash, PrevHash |-> ZeroHash,
              Timestamp |-> 0, Version |-> 0, MerkleRoot |-> ZeroHash, NextConsensus |-> ""]

\* An interop item: a *Block (its base and its transactions), a *Header (its
\* base) or a *transaction.Transaction (its hash).
NoItem == [type |-> "none", Base |-> NilHeader, Transactions |-> <<>>, Hash |-> ZeroHash]
BlockItem(base, txs) == [NoItem EXCEPT !.type = "Block", !.Base = base, !.Transactions = txs]
HeaderItem(base) == [NoItem EXCEPT !.type = "Header", !.Base = base]
TransactionItem(hash) == [NoItem EXCEPT !.type = "Transaction", !.Hash = hash]

\* what a handler pushed on the evaluation stack; an iterator is the sequence
\* of the (key, value) pairs it walks
PushNothing == [kind |-> "none", bytes |-> Empty, cs |-> NilContract,
                stc |-> StorageContext("", FALSE), items |-> <<>>,
                as |-> NilAsset, num |-> U(0, 0), item |-> NoItem, bool |-> FALSE,
                hash |-> ZeroHash, order |-> ""]
PushBytes(b) == [PushNothing EXCEPT !.kind = "bytes", !.bytes = b]
PushContract(cs) == [PushNothing EXCEPT !.kind = "contract", !.cs = cs]
PushContext(stc) == [PushNothing EXCEPT !.kind = "context", !.stc = stc]
PushIterator(items) == [PushNothing EXCEPT !.kind = "iterator", !.items = items]
PushAsset(as) == [PushNothing EXCEPT !.kind = "asset", !.as = as]
PushNum(n) == [PushNothing EXCEPT !.kind = "num", !.num = n]
PushItem(item) == [PushNothing EXCEPT !.kind = "item", !.item = item]
PushBool(b) == [PushNothing EXCEPT !.kind = "bool", !.bool = b]
\* the bytes of a hash, in the byte order given
PushHash(h, order) == [PushNothing EXCEPT !.kind = "hash", !.hash = h, !.order = order]
PushItems(items) == [PushNothing EXCEPT !.kind = "array", !.items = items]

VARIABLES
    bcContracts,  \* committed contract records, by script hash
    bcStorage,    \* committed storage items, by (script hash, key)
    bcAssets,     \* committed assets, by asset id
    bcHeight,     \* the height of the chain
    bcChain,      \* the header hashes by index, the stored headers, blocks and
                  \* transactions, and the script hashes for verifying each
                  \* script container
    heap,         \* the byte arrays behind the buffers of the domain objects and
                  \* of the interpreter: which array each object's field and
                  \* each buffer on the evaluation stack is a slice of
    param,        \* the manifest parameter at hand, the stack item made of it
                  \* or given, and the result of the last conversion
    wallet,       \* the accounts and the tokens of the wallet and the error
                  \* of the last call
    vmcli,        \* the VM of the command line: the program loaded, its
                  \* breakpoints, instruction pointer, stack and state
    ic,           \* the interop contexts: state, trigger, executing script, staged
                  \* store, the storage contexts the script holds, and the handler
                  \* that ran last with its error and what it pushed
    runs,         \* interop contexts created so far
    steps         \* handlers run so far

vars == <<bcContracts, bcStorage, bcAssets, bcHeight, bcChain, heap, param, wallet, vmcli, ic, runs, steps>>

\* the overlay of a fresh interop context, over the (script hash, key) pairs
\* of the ledger
EmptyMem == [si |-> [c \in DOMAIN bcStorage |-> NoEntry], cs |-> [h \in Hashes |-> NoCsEntry],
             as |-> [id \in DOMAIN bcAssets |-> NoAsEntry]]

(***************************************************************************)
(* The ledger (ic.bc, and the reads of ic.DAO): committed state only.      *)
(***************************************************************************)
GetContractState(h) == bcContracts[h]

GetStorageItem(h, k) == bcStorage[<<h, k>>]

\* the keys of the committed items of contract h
GetStorageItems(h) == {c[2] : c \in {d \in DOMAIN bcStorage : d[1] = h /\ ~bcStorage[d].nil}}

(***************************************************************************)
(* The staged store of an interop context (ic.mem, and the writes of       *)
(* ic.DAO).                                                                *)
(***************************************************************************)
\* nil on a miss and on a tombstone
getStorageItemFromStore(mem, h, k) ==
    IF mem.si[<<h, k>>].st = "put" THEN mem.si[<<h, k>>].item ELSE NilItem

putStorageItemIntoStore(mem, h, k, si) == [mem EXCEPT !.si[<<h, k>>] = Present(si)]

deleteStorageItemInStore(mem, h, k) == [mem EXCEPT !.si[<<h, k>>] = Tombstone]

getContractStateFromStore(mem, h) ==
    IF mem.cs[h].st = "put" THEN mem.cs[h].cs ELSE NilContract

putContractStateIntoStore(mem, cs) == [mem EXCEPT !.cs[cs.Script] = CsPresent(cs)]

deleteContractStateInStore(mem, h) == [mem EXCEPT !.cs[h] = CsTombstone]

\* ic.DAO.PutAssetState, ic.DAO.GetAssetState: the staged asset first, else
\* the committed one
PutAssetState(mem, as) == [mem EXCEPT !.as[as.ID] = AsPresent(as)]
GetAssetState(mem, id) == IF mem.as[id].st = "put" THEN mem.as[id].as ELSE bcAssets[id]

\* ic.DAO.GetContractState: the contract as the execution sees it, a contract
\* staged by this execution first (one it destroyed is a miss), else the
\* committed one
DAOGetContractState(mem, h) ==
    CASE mem.cs[h].st = "put" -> mem.cs[h].cs
      [] mem.cs[h].st = "del" -> NilContract
      [] OTHER -> GetContractState(h)

(***************************************************************************)
(* Handlers.  Each is an operator from the interop context e and the       *)
(* popped arguments to its outcome: the error returned ("OK" for nil), the  *)
(* staged store it leaves and the value it pushed.                         *)
(***************************************************************************)
Ok(mem, push) == [err |-> "OK", mem |-> mem, push |-> push]
Fail(e, err) == [err |-> err, mem |-> ic[e].mem, push |-> PushNothing]

\* a deviating checkStorageContext: the HasStorage test (lines 391-393) left out
checkStorageContextAnyContract(stc) ==
    LET contract == GetContractState(stc.ScriptHash)
    IN  IF contract.nil THEN "NoStorageCapability" ELSE "OK"

checkStorageContext(stc) ==
    LET contract == GetContractState(stc.ScriptHash)
    IN  IF contract.nil THEN "NoStorageCapability"
        ELSE IF ~contract.HasStorage THEN "NoStorageCapability"
        ELSE "OK"

\* a deviating storageDelete: the IsConst test (lines 415-421) left out
storageDeleteNoConstCheck(e, stc, key) ==
    IF ic[e].trigger # Application /\ ic[e].trigger # ApplicationR
    THEN Fail(e, "TriggerNotApplication")
    ELSE IF stc.ReadOnly THEN Fail(e, "ReadOnlyContext")
    ELSE IF checkStorageContext(stc) # "OK" THEN Fail(e, checkStorageContext(stc))
    ELSE Ok(deleteStorageItemInStore(ic[e].mem, stc.ScriptHash, key), PushNothing)

storageDelete(e, stc, key) ==
    IF ic[e].trigger # Application /\ ic[e].trigger # ApplicationR
    THEN Fail(e, "TriggerNotApplication")
    ELSE IF stc.ReadOnly THEN Fail(e, "ReadOnlyContext")
    ELSE IF checkStorageContext(stc) # "OK" THEN Fail(e, checkStorageContext(stc))
    ELSE LET inMem == getStorageItemFromStore(ic[e].mem, stc.ScriptHash, key)
             si == IF inMem.nil THEN GetStorageItem(stc.ScriptHash, key) ELSE inMem
         IN  IF ~si.nil /\ si.IsConst THEN Fail(e, "ConstViolation")
             ELSE Ok(deleteStorageItemInStore(ic[e].mem, stc.ScriptHash, key), PushNothing)

\* a deviating storageGet: no fallback to the ledger (lines 438-440 left out)
storageGetOverlayOnly(e, stc, key) ==
    IF checkStorageContext(stc) # "OK" THEN Fail(e, checkStorageContext(stc))
    ELSE LET si == getStorageItemFromStore(ic[e].mem, stc.ScriptHash, key)
         IN  IF ~si.nil THEN Ok(ic[e].mem, PushBytes(si.Value))
             ELSE Ok(ic[e].mem, PushBytes(Empty))

\* a deviating storageGet: reads what any running execution has staged
storageGetAnyOverlay(e, stc, key) ==
    IF checkStorageContext(stc) # "OK" THEN Fail(e, checkStorageContext(stc))
    ELSE LET staged == {o \in Execs : ic[o].state = "running"
                                      /\ ic[o].mem.si[<<stc.ScriptHash, key>>].st = "put"}
             si == IF staged # {}
                   THEN ic[CHOOSE o \in staged : TRUE].mem.si[<<stc.ScriptHash, key>>].item
                   ELSE GetStorageItem(stc.ScriptHash, key)
         IN  IF ~si.nil THEN Ok(ic[e].mem, PushBytes(si.Value))
             ELSE Ok(ic[e].mem, PushBytes(Empty))

storageGet(e, stc, key) ==
    IF checkStorageContext(stc) # "OK" THEN Fail(e, checkStorageContext(stc))
    ELSE LET inMem == getStorageItemFromStore(ic[e].mem, stc.ScriptHash, key)
             si == IF inMem.nil THEN GetStorageItem(stc.ScriptHash, key) ELSE inMem
         IN  IF ~si.nil THEN Ok(ic[e].mem, PushBytes(si.Value))
             ELSE Ok(ic[e].mem, PushBytes(Empty))

(***************************************************************************)
(* storageFind.  Byte strings are sequences of bytes here.                 *)
(***************************************************************************)
KeyBytes(k) == k.b \o [i \in 1..k.pad |-> 0]

HasPrefix(s, p) == Len(p) <= Len(s) /\ SubSeq(s, 1, Len(p)) = p

\* bytes.Compare(a, b) == -1
Less(a, b) ==
    \E i \in 1..Len(b) :
        /\ \A j \in 1..(i - 1) : j <= Len(a) /\ a[j] = b[j]
        /\ (i > Len(a) \/ (i <= Len(a) /\ a[i] < b[i]))

\* ic.DAO.GetStorageItemsWithPrefix: the committed items of contract h whose
\* key starts with prefix, each under its key with the prefix cut off
GetStorageItemsWithPrefix(h, prefix) ==
    { [k |-> SubSeq(KeyBytes(c[2]), Len(prefix) + 1, Len(KeyBytes(c[2]))), v |-> bcStorage[c]] :
        c \in {d \in DOMAIN bcStorage : /\ d[1] = h
                                         /\ ~bcStorage[d].nil
                                         /\ HasPrefix(KeyBytes(d[2]), prefix)} }

\* the orders in which a range over the map siMap can visit it
RangeOrders(siMap) ==
    {o \in [1..Cardinality(siMap) -> siMap] : \A i, j \in 1..Cardinality(siMap) : o[i] = o[j] => i = j}

\* The byte string a map key holds.  append(prefix, k...) allocates a new
\* array when k does not fit the capacity of prefix; when it fits, the result
\* is prefix's own array, whose bytes behind prefix are buf (appendFits).
appendFits(k, spare) == Len(k) <= spare
KeyContent(key, prefix, buf) ==
    IF key.shared THEN prefix \o SubSeq(buf, 1, key.len) ELSE key.bytes

\* the loop of lines 236-238: MapItem.Add replaces the value of an element
\* whose key has the same bytes, and appends a new element otherwise
RECURSIVE filteredMap(_, _, _, _)
filteredMap(prefix, order, buf, elems) ==
    IF order = <<>> THEN [buf |-> buf, elems |-> elems]
    ELSE LET k == Head(order).k
             fits == appendFits(k, Len(buf))
             buf2 == IF fits THEN [i \in 1..Len(buf) |-> IF i <= Len(k) THEN k[i] ELSE buf[i]]
                     ELSE buf
             key == [shared |-> fits, len |-> Len(k),
                     bytes |-> IF fits THEN <<>> ELSE prefix \o k]
             same == {i \in 1..Len(elems) :
                         KeyContent(elems[i].key, prefix, buf2) = KeyContent(key, prefix, buf2)}
             elems2 == IF same # {}
                       THEN [elems EXCEPT ![CHOOSE i \in same : \A j \in same : i <= j].v =
                                              Head(order).v.Value]
                       ELSE Append(elems, [key |-> key, v |-> Head(order).v.Value])
         IN  filteredMap(prefix, Tail(order), buf2, elems2)

\* the (key, value) pairs of the elements, as the iterator reads them
MapElements(prefix, m) ==
    [i \in 1..Len(m.elems) |-> <<KeyContent(m.elems[i].key, prefix, m.buf), m.elems[i].v>>]

\* sort.Slice by the keys, lines 239-242
RECURSIVE sortSlice(_)
sortSlice(elems) ==
    IF elems = <<>> THEN <<>>
    ELSE LET i == CHOOSE i \in 1..Len(elems) : \A j \in 1..Len(elems) : ~Less(elems[j][1], elems[i][1])
         IN  <<elems[i]>> \o sortSlice([j \in 1..(Len(elems) - 1) |->
                                            IF j < i THEN elems[j] ELSE elems[j + 1]])

\* a deviating storageFind: the map is not sorted (lines 239-242 left out)
storageFindUnsorted(e, stc, prefix, spare, order) ==
    IF checkStorageContext(stc) # "OK" THEN Fail(e, checkStorageContext(stc))
    ELSE Ok(ic[e].mem,
            PushIterator(MapElements(prefix,
                filteredMap(prefix, order, [i \in 1..spare |-> 0], <<>>))))

\* prefix is the popped byte string, spare the capacity of its array behind
\* it, order the order in which the range visits siMap
storageFind(e, stc, prefix, spare, order) ==
    IF checkStorageContext(stc) # "OK" THEN Fail(e, checkStorageContext(stc))
    ELSE Ok(ic[e].mem,
            PushIterator(sortSlice(MapElements(prefix,
                filteredMap(prefix, order, [i \in 1..spare |-> 0], <<>>)))))

\* a deviating putWithContextAndFlags: only the Application trigger may write
putWithContextAndFlagsOnlyApplication(e, stc, key, value, isConst) ==
    IF ic[e].trigger # Application
    THEN Fail(e, "TriggerNotApplication")
    ELSE IF KeyLen(key) > MaxStorageKeyLen THEN Fail(e, "KeyTooLarge")
    ELSE IF stc.ReadOnly THEN Fail(e, "ReadOnlyContext")
    ELSE IF checkStorageContext(stc) # "OK" THEN Fail(e, checkStorageContext(stc))
    ELSE LET inMem == getStorageItemFromStore(ic[e].mem, stc.ScriptHash, key)
             si == IF inMem.nil THEN GetStorageItem(stc.ScriptHash, key) ELSE inMem
         IN  IF si.IsConst THEN Fail(e, "ConstViolation")
             ELSE Ok(putStorageItemIntoStore(ic[e].mem, stc.ScriptHash, key,
                                             StorageItem(value, isConst)), PushNothing)

\* a deviating putWithContextAndFlags: the IsConst test (line 490) left out
putWithContextAndFlagsNoConstCheck(e, stc, key, value, isConst) ==
    IF ic[e].trigger # Application /\ ic[e].trigger # ApplicationR
    THEN Fail(e, "TriggerNotApplication")
    ELSE IF KeyLen(key) > MaxStorageKeyLen THEN Fail(e, "KeyTooLarge")
    ELSE IF stc.ReadOnly THEN Fail(e, "ReadOnlyContext")
    ELSE IF checkStorageContext(stc) # "OK" THEN Fail(e, checkStorageContext(stc))
    ELSE Ok(putStorageItemIntoStore(ic[e].mem, stc.ScriptHash, key,
                                    StorageItem(value, isConst)), PushNothing)

\* a deviating putWithContextAndFlags: the ReadOnly test (line 476) left out
putWithContextAndFlagsNoReadOnlyCheck(e, stc, key, value, isConst) ==
    IF ic[e].trigger # Application /\ ic[e].trigger # ApplicationR
    THEN Fail(e, "TriggerNotApplication")
    ELSE IF KeyLen(key) > MaxStorageKeyLen THEN Fail(e, "KeyTooLarge")
    ELSE IF checkStorageContext(stc) # "OK" THEN Fail(e, checkStorageContext(stc))
    ELSE LET inMem == getStorageItemFromStore(ic[e].mem, stc.ScriptHash, key)
             si == IF inMem.nil THEN GetStorageItem(stc.ScriptHash, key) ELSE inMem
         IN  IF si.IsConst THEN Fail(e, "ConstViolation")
             ELSE Ok(putStorageItemIntoStore(ic[e].mem, stc.ScriptHash, key,
                                             StorageItem(value, isConst)), PushNothing)

\* a deviating putWithContextAndFlags: an item already there keeps its value
putWithContextAndFlagsKeepsOldValue(e, stc, key, value, isConst) ==
    IF ic[e].trigger # Application /\ ic[e].trigger # ApplicationR
    THEN Fail(e, "TriggerNotApplication")
    ELSE IF KeyLen(key) > MaxStorageKeyLen THEN Fail(e, "KeyTooLarge")
    ELSE IF stc.ReadOnly THEN Fail(e, "ReadOnlyContext")
    ELSE IF checkStorageContext(stc) # "OK" THEN Fail(e, checkStorageContext(stc))
    ELSE LET inMem == getStorageItemFromStore(ic[e].mem, stc.ScriptHash, key)
             si == IF inMem.nil THEN GetStorageItem(stc.ScriptHash, key) ELSE inMem
         IN  IF si.IsConst THEN Fail(e, "ConstViolation")
             ELSE Ok(putStorageItemIntoStore(ic[e].mem, stc.ScriptHash, key,
                        StorageItem(IF si.nil THEN value ELSE si.Value, isConst)),
                     PushNothing)

\* a deviating putWithContextAndFlags: the item is stored under the key alone,
\* whichever contract owns the context
putWithContextAndFlagsEveryContract(e, stc, key, value, isConst) ==
    IF ic[e].trigger # Application /\ ic[e].trigger # ApplicationR
    THEN Fail(e, "TriggerNotApplication")
    ELSE IF KeyLen(key) > MaxStorageKeyLen THEN Fail(e, "KeyTooLarge")
    ELSE IF stc.ReadOnly THEN Fail(e, "ReadOnlyContext")
    ELSE IF checkStorageContext(stc) # "OK" THEN Fail(e, checkStorageContext(stc))
    ELSE LET inMem == getStorageItemFromStore(ic[e].mem, stc.ScriptHash, key)
             si == IF inMem.nil THEN GetStorageItem(stc.ScriptHash, key) ELSE inMem
         IN  IF si.IsConst THEN Fail(e, "ConstViolation")
             ELSE Ok([ic[e].mem EXCEPT
                         !.si = [c \in DOMAIN @ |->
                                    IF c[2] = key THEN Present(StorageItem(value, isConst))
                                    ELSE @[c]]],
                     PushNothing)

\* si is the staged item, else the committed one, else a new &StorageItem{}
\* (whose IsConst is false)
putWithContextAndFlags(e, stc, key, value, isConst) ==
    IF ic[e].trigger # Application /\ ic[e].trigger # ApplicationR
    THEN Fail(e, "TriggerNotApplication")
    ELSE IF KeyLen(key) > MaxStorageKeyLen THEN Fail(e, "KeyTooLarge")
    ELSE IF stc.ReadOnly THEN Fail(e, "ReadOnlyContext")
    ELSE IF checkStorageContext(stc) # "OK" THEN Fail(e, checkStorageContext(stc))
    ELSE LET inMem == getStorageItemFromStore(ic[e].mem, stc.ScriptHash, key)
             si == IF inMem.nil THEN GetStorageItem(stc.ScriptHash, key) ELSE inMem
         IN  IF si.IsConst THEN Fail(e, "ConstViolation")
             ELSE Ok(putStorageItemIntoStore(ic[e].mem, stc.ScriptHash, key,
                                             StorageItem(value, isConst)), PushNothing)

\* storagePutInternal: the flag, popped only by PutEx, makes the item const
\* when it is 1
storagePutInternal(e, stc, key, value, getFlag, flag) ==
    putWithContextAndFlags(e, stc, key, value, (IF getFlag THEN flag ELSE 0) = 1)

\* the script hash of the executing context
getContextScriptHash(e) == ic[e].cur

storageGetContext(e) ==
    Ok(ic[e].mem, PushContext(StorageContext(getContextScriptHash(e), FALSE)))

storageGetReadOnlyContext(e) ==
    Ok(ic[e].mem, PushContext(StorageContext(getContextScriptHash(e), TRUE)))

\* a deviating storageContextAsReadOnly: the context goes back as it came
storageContextAsReadOnlyKeepsFlag(e, stc) ==
    Ok(ic[e].mem, PushContext(stc))

storageContextAsReadOnly(e, stc) ==
    Ok(ic[e].mem, PushContext(IF ~stc.ReadOnly
                              THEN StorageContext(stc.ScriptHash, TRUE)
                              ELSE stc))

bcGetContract(e, h) ==
    LET cs == GetContractState(h)
    IN  IF cs.nil THEN Ok(ic[e].mem, PushBytes(Empty))
        ELSE Ok(ic[e].mem, PushContract(cs))

(***************************************************************************)
(* Contract lifecycle handlers.                                            *)
(***************************************************************************)
\* what a script passes to create and migrate: the script (by its hash), the
\* properties and the metadata
ContractSpecs ==
    UNION {{Contract(h, TRUE, "n1"), Contract(h, FALSE, "n2"), Contract(h, TRUE, LongName)} :
           h \in Hashes}

\* a deviating createContractStateFromVM: the description limit is one short
createContractStateFromVMShortDescription(e, spec) ==
    IF ic[e].trigger # Application THEN "TriggerNotApplication"
    ELSE IF spec.Sizes.script > MaxContractScriptSize THEN "FieldTooLarge"
    ELSE IF spec.Sizes.params > MaxContractParametersNum THEN "FieldTooLarge"
    ELSE IF NameLen(spec.Name) > MaxContractStringLen THEN "FieldTooLarge"
    ELSE IF spec.Sizes.version > MaxContractStringLen THEN "FieldTooLarge"
    ELSE IF spec.Sizes.author > MaxContractStringLen THEN "FieldTooLarge"
    ELSE IF spec.Sizes.email > MaxContractStringLen THEN "FieldTooLarge"
    ELSE IF spec.Sizes.desc >= MaxContractDescriptionLen THEN "FieldTooLarge"
    ELSE "OK"

\* the error of createContractStateFromVM ("OK": spec itself is the new state)
createContractStateFromVM(e, spec) ==
    IF ic[e].trigger # Application THEN "TriggerNotApplication"
    ELSE IF spec.Sizes.script > MaxContractScriptSize THEN "FieldTooLarge"
    ELSE IF spec.Sizes.params > MaxContractParametersNum THEN "FieldTooLarge"
    ELSE IF NameLen(spec.Name) > MaxContractStringLen THEN "FieldTooLarge"
    ELSE IF spec.Sizes.version > MaxContractStringLen THEN "FieldTooLarge"
    ELSE IF spec.Sizes.author > MaxContractStringLen THEN "FieldTooLarge"
    ELSE IF spec.Sizes.email > MaxContractStringLen THEN "FieldTooLarge"
    ELSE IF spec.Sizes.desc > MaxContractDescriptionLen THEN "FieldTooLarge"
    ELSE "OK"

RECURSIVE deleteStorageItems(_, _, _)
deleteStorageItems(mem, h, keys) ==
    IF keys = {} THEN mem
    ELSE LET k == CHOOSE x \in keys : TRUE
         IN  deleteStorageItems(deleteStorageItemInStore(mem, h, k), h, keys \ {k})

\* contractDestroy on the staged store mem, with push on top of the stack
contractDestroy(e, mem, push) ==
    IF ic[e].trigger # Application THEN Fail(e, "TriggerNotApplication")
    ELSE LET hash == getContextScriptHash(e)
             cs == GetContractState(hash)
         IN  IF cs.nil THEN Ok(mem, push)
             ELSE IF cs.HasStorage
                  THEN Ok(deleteStorageItems(deleteContractStateInStore(mem, hash),
                                             hash, GetStorageItems(hash)), push)
                  ELSE Ok(deleteContractStateInStore(mem, hash), push)

\* a deviating contractCreate: stores the new contract without the lookup
contractCreateOverwrites(e, spec) ==
    IF createContractStateFromVM(e, spec) # "OK"
    THEN Fail(e, createContractStateFromVM(e, spec))
    ELSE Ok(putContractStateIntoStore(ic[e].mem, spec), PushContract(spec))

contractCreate(e, spec) ==
    IF createContractStateFromVM(e, spec) # "OK"
    THEN Fail(e, createContractStateFromVM(e, spec))
    ELSE LET contract == DAOGetContractState(ic[e].mem, spec.Script)
         IN  IF contract.nil
             THEN Ok(putContractStateIntoStore(ic[e].mem, spec), PushContract(spec))
             ELSE Ok(ic[e].mem, PushContract(contract))

\* the loop of contractMigrate: every item of the executing script goes to
\* the new contract with IsConst reset
RECURSIVE migrateStorageItems(_, _, _, _)
migrateStorageItems(mem, from, to, keys) ==
    IF keys = {} THEN mem
    ELSE LET k == CHOOSE x \in keys : TRUE
             v == [GetStorageItem(from, k) EXCEPT !.IsConst = FALSE]
         IN  migrateStorageItems(putStorageItemIntoStore(mem, to, k, v), from, to, keys \ {k})

contractMigrate(e, spec) ==
    IF createContractStateFromVM(e, spec) # "OK"
    THEN Fail(e, createContractStateFromVM(e, spec))
    ELSE LET contract == DAOGetContractState(ic[e].mem, spec.Script)
             hash == getContextScriptHash(e)
             created == putContractStateIntoStore(ic[e].mem, spec)
         IN  IF contract.nil
             THEN IF spec.HasStorage
                  THEN contractDestroy(e, migrateStorageItems(created, hash, spec.Script,
                                                              GetStorageItems(hash)),
                                       PushContract(spec))
                  ELSE contractDestroy(e, created, PushContract(spec))
             ELSE contractDestroy(e, ic[e].mem, PushContract(contract))

(***************************************************************************)
(* Ledger queries.                                                         *)
(***************************************************************************)
ByteAt(b, i) == IF i <= Len(b) THEN b[i] ELSE 0

\* element.BigInt().Int64() of a string of at most five bytes, read as a
\* little-endian two's complement integer: whether it is negative, and the
\* unsigned reading of the bytes (the value itself when it is not negative)
Int64Of(b) ==
    [neg |-> b # <<>> /\ b[Len(b)] >= 128,
     raw |-> U(ByteAt(b, 3) + 256 * ByteAt(b, 4) + 65536 * ByteAt(b, 5),
               ByteAt(b, 1) + 256 * ByteAt(b, 2))]

\* util.Uint256DecodeReverseBytes: a string of 32 bytes is the hash it spells
Uint256DecodeReverseBytes(arg) ==
    IF arg.len = 32 THEN [err |-> "OK", hash |-> arg.body]
    ELSE [err |-> "DecodeError", hash |-> ZeroHash]

\* bc.GetHeaderHash: the hash of the header at an index, the zero hash
\* behind the last one
GetHeaderHash(i) ==
    IF i.hi = 0 /\ i.lo < Len(bcChain.hashes) THEN bcChain.hashes[i.lo + 1] ELSE ZeroHash

\* bc.GetBlock, bc.GetHeader, bc.GetTransaction: the stored object with the
\* hash, an error (err) when there is none
GetBlock(hash) ==
    LET found == {b \in bcChain.blocks : b.Base.Hash = hash}
    IN  IF found = {} THEN [err |-> TRUE, block |-> NoItem]
        ELSE [err |-> FALSE, block |-> CHOOSE b \in found : TRUE]
GetHeader(hash) ==
    LET found == {h \in bcChain.headers : h.Hash = hash}
    IN  IF found = {} THEN [err |-> TRUE, header |-> NoItem]
        ELSE [err |-> FALSE, header |-> HeaderItem(CHOOSE h \in found : TRUE)]
GetTransaction(hash) ==
    LET found == {t \in bcChain.txs : t.hash = hash}
    IN  IF found = {} THEN [err |-> TRUE, tx |-> NoItem, height |-> 0]
        ELSE [err |-> FALSE, tx |-> TransactionItem(hash),
              height |-> (CHOOSE t \in found : TRUE).height]

\* a deviating getBlockHashFromElement: a string of four bytes at most is an
\* index
getBlockHashFromElementFourBytes(arg) ==
    IF arg.len <= 4
    THEN LET hashint == Int64Of(arg.bytes)
         IN  IF hashint.neg \/ LessU(MaxUint32, hashint.raw)
             THEN [err |-> "InvalidBlockIndex", hash |-> ZeroHash]
             ELSE [err |-> "OK", hash |-> GetHeaderHash(hashint.raw)]
    ELSE Uint256DecodeReverseBytes(arg)

getBlockHashFromElement(arg) ==
    IF arg.len <= 5
    THEN LET hashint == Int64Of(arg.bytes)
         IN  IF hashint.neg \/ LessU(MaxUint32, hashint.raw)
             THEN [err |-> "InvalidBlockIndex", hash |-> ZeroHash]
             ELSE [err |-> "OK", hash |-> GetHeaderHash(hashint.raw)]
    ELSE Uint256DecodeReverseBytes(arg)

bcGetBlock(e, arg) ==
    LET hash == getBlockHashFromElement(arg)
        got == GetBlock(hash.hash)
    IN  IF hash.err # "OK" THEN Fail(e, hash.err)
        ELSE IF got.err THEN Ok(ic[e].mem, PushBytes(Empty))
        ELSE Ok(ic[e].mem, PushItem(got.block))

bcGetHeader(e, arg) ==
    LET hash == getBlockHashFromElement(arg)
        got == GetHeader(hash.hash)
    IN  IF hash.err # "OK" THEN Fail(e, hash.err)
        ELSE IF got.err THEN Ok(ic[e].mem, PushBytes(Empty))
        ELSE Ok(ic[e].mem, PushItem(got.header))

\* the transaction, its height and the error ("OK" for nil)
getTransactionAndHeight(arg) ==
    LET hash == Uint256DecodeReverseBytes(arg)
        got == GetTransaction(hash.hash)
    IN  IF hash.err # "OK" THEN [err |-> hash.err, tx |-> NoItem, height |-> 0]
        ELSE IF got.err THEN [err |-> "NotFound", tx |-> NoItem, height |-> 0]
        ELSE [err |-> "OK", tx |-> got.tx, height |-> got.height]

bcGetTransaction(e, arg) ==
    LET got == getTransactionAndHeight(arg)
    IN  IF got.err # "OK" THEN Fail(e, got.err)
        ELSE Ok(ic[e].mem, PushItem(got.tx))

bcGetTransactionHeight(e, arg) ==
    LET got == getTransactionAndHeight(arg)
    IN  IF got.err # "OK" THEN Fail(e, got.err)
        ELSE Ok(ic[e].mem, PushNum(ToU(got.height)))

\* a deviating popHeaderFromVM: only a header passes
popHeaderFromVMOnlyHeader(item) ==
    IF item.type = "Header" THEN [err |-> "OK", header |-> item.Base]
    ELSE [err |-> "WrongHandleType", header |-> NilHeader]

\* the header of the item popped: a header itself, or block.Header()
popHeaderFromVM(item) ==
    IF item.type = "Header" THEN [err |-> "OK", header |-> item.Base]
    ELSE IF item.type = "Block" THEN [err |-> "OK", header |-> item.Base]
    ELSE [err |-> "WrongHandleType", header |-> NilHeader]

\* the accessors of a header, and what each pushes
HeaderAccessors ==
    {"Index", "Hash", "PrevHash", "Timestamp", "Version", "MerkleRoot", "NextConsensus"}
HeaderValue(header, f) ==
    CASE f = "Index" -> PushNum(ToU(header.Index))
      [] f = "Hash" -> PushHash(header.Hash, "reversed")
      [] f = "PrevHash" -> PushHash(header.PrevHash, "reversed")
      [] f = "Timestamp" -> PushNum(ToU(header.Timestamp))
      [] f = "Version" -> PushNum(ToU(header.Version))
      [] f = "MerkleRoot" -> PushHash(header.MerkleRoot, "BE")
      [] f = "NextConsensus" -> PushHash(header.NextConsensus, "BE")

\* headerGetIndex, headerGetHash, headerGetPrevHash, headerGetTimestamp,
\* headerGetVersion, headerGetMerkleRoot, headerGetNextConsensus
headerGet(e, item, f) ==
    LET header == popHeaderFromVM(item)
    IN  IF header.err # "OK" THEN Fail(e, header.err)
        ELSE Ok(ic[e].mem, HeaderValue(header.header, f))

\* vm.MaxArraySize
MaxArraySize == 1024

blockGetTransactionCount(e, item) ==
    IF item.type # "Block" THEN Fail(e, "WrongHandleType")
    ELSE Ok(ic[e].mem, PushNum(ToU(Len(item.Transactions))))

blockGetTransactions(e, item) ==
    IF item.type # "Block" THEN Fail(e, "WrongHandleType")
    ELSE IF Len(item.Transactions) > MaxArraySize THEN Fail(e, "TooManyItems")
    ELSE Ok(ic[e].mem, PushItems([i \in 1..Len(item.Transactions) |->
                                     TransactionItem(item.Transactions[i])]))

blockGetTransaction(e, item, index) ==
    IF item.type # "Block" THEN Fail(e, "WrongHandleType")
    ELSE IF index < 0 \/ index >= Len(item.Transactions) THEN Fail(e, "InvalidIndex")
    ELSE Ok(ic[e].mem, PushItem(TransactionItem(item.Transactions[index + 1])))

(***************************************************************************)
(* Witness checks.                                                         *)
(***************************************************************************)
\* util.Uint160DecodeBytes: a string of 20 bytes is the hash it spells
Uint160DecodeBytes(arg) ==
    IF arg.len = 20 THEN [err |-> FALSE, hash |-> arg.body] ELSE [err |-> TRUE, hash |-> ""]

\* keys.PublicKey.DecodeBytes: the one-byte encoding of infinity, a
\* compressed point (33 bytes, first 0x02 or 0x03) or an uncompressed one (65
\* bytes, first 0x04)
PublicKeyDecodeBytes(arg) ==
    IF arg.len = 1 /\ arg.first = 0 THEN [err |-> FALSE, key |-> "infinity"]
    ELSE IF arg.len = 33 /\ arg.first \in {2, 3} /\ arg.point
    THEN [err |-> FALSE, key |-> arg.body]
    ELSE IF arg.len = 65 /\ arg.first = 4 /\ arg.point
    THEN [err |-> FALSE, key |-> arg.body]
    ELSE [err |-> TRUE, key |-> ""]

\* hash.Hash160(smartcontract.CreateSignatureRedeemScript(key)): the script
\* hash of the single-signature script of a key
SignatureScriptHash(key) == "sig:" \o key

\* ic.bc.GetScriptHashesForVerifying(ic.tx)
GetScriptHashesForVerifying(e) == bcChain.verifying[ic[e].tx]

\* the result and the error ("OK" for nil) of a witness check
WitnessResult(res, err) == [res |-> res, err |-> err]

\* a deviating checkHashedWitness: a ledger error counts as no witness
checkHashedWitnessErrorIsFalse(e, hash) ==
    LET got == GetScriptHashesForVerifying(e)
    IN  IF got.err THEN WitnessResult(FALSE, "OK")
        ELSE WitnessResult(\E i \in 1..Len(got.hashes) : got.hashes[i] = hash, "OK")

checkHashedWitness(e, hash) ==
    LET got == GetScriptHashesForVerifying(e)
    IN  IF got.err THEN WitnessResult(FALSE, "LedgerError")
        ELSE WitnessResult(\E i \in 1..Len(got.hashes) : got.hashes[i] = hash, "OK")

checkKeyedWitness(e, key) == checkHashedWitness(e, SignatureScriptHash(key))

\* a deviating runtimeCheckWitness: the key is tried before the hash, and a
\* string that is no key is taken for a hash whatever its length
runtimeCheckWitnessKeyFirst(e, arg) ==
    LET key == PublicKeyDecodeBytes(arg)
        res == IF key.err THEN checkHashedWitness(e, arg.body)
               ELSE checkKeyedWitness(e, key.key)
    IN  IF res.err # "OK" THEN Fail(e, res.err)
        ELSE Ok(ic[e].mem, PushBool(res.res))

runtimeCheckWitness(e, arg) ==
    LET hash == Uint160DecodeBytes(arg)
        key == PublicKeyDecodeBytes(arg)
        res == IF hash.err THEN checkKeyedWitness(e, key.key)
               ELSE checkHashedWitness(e, hash.hash)
    IN  IF hash.err /\ key.err THEN Fail(e, "InvalidWitnessParameter")
        ELSE IF res.err # "OK" THEN Fail(e, res.err)
        ELSE Ok(ic[e].mem, PushBool(res.res))

(***************************************************************************)
(* Assets.                                                                 *)
(***************************************************************************)
\* what a script passes to asset create: the type, the length of the name,
\* the amount, the precision as the integer popped, the owner key (its
\* encoding decodes or not, to infinity or to a key whose witness the
\* transaction carries or not), and whether admin and issuer decode
AssetRequest(atype, nameLen, amount, precision, owner, admin, issuer) ==
    [atype |-> atype, nameLen |-> nameLen, amount |-> amount, precision |-> precision,
     owner |-> owner, admin |-> admin, issuer |-> issuer]
OwnerKeys == {"malformed", "infinity", "unwitnessed", "witnessed"}
NoRequest == AssetRequest(0, 0, 0, 0, "", FALSE, FALSE)

\* byte(x) of a non-negative integer
Byte(x) == x % 256

RECURSIVE Pow10(_)
Pow10(n) == IF n = 0 THEN 1 ELSE 10 * Pow10(n - 1)

\* runtime.CheckKeyedWitness for the owner key
CheckKeyedWitness(owner) == owner = "witnessed"

assetCreate(e, req) ==
    LET precision == Byte(req.precision)
    IN  IF ic[e].trigger # Application THEN Fail(e, "TriggerNotApplication")
        ELSE IF req.atype \notin {Currency, Share, Invoice, Token}
        THEN Fail(e, "InvalidAssetField")
        ELSE IF req.nameLen > MaxAssetNameLen THEN Fail(e, "FieldTooLarge")
        ELSE IF req.amount = 0 THEN Fail(e, "InvalidAssetField")
        ELSE IF req.amount < -Satoshi THEN Fail(e, "InvalidAssetField")
        ELSE IF req.atype = Invoice /\ req.amount # -Satoshi THEN Fail(e, "InvalidAssetField")
        ELSE IF precision > MaxAssetPrecision THEN Fail(e, "InvalidAssetField")
        ELSE IF req.atype = Share /\ precision # 0 THEN Fail(e, "InvalidAssetField")
        ELSE IF req.amount # -Satoshi
                /\ req.amount % Pow10(MaxAssetPrecision - precision) # 0
        THEN Fail(e, "InvalidAssetField")
        ELSE IF req.owner = "malformed" THEN Fail(e, "InvalidAssetField")
        ELSE IF req.owner = "infinity" THEN Fail(e, "InvalidAssetField")
        ELSE IF ~CheckKeyedWitness(req.owner) THEN Fail(e, "WitnessCheckFailed")
        ELSE IF ~req.admin THEN Fail(e, "DecodeError")
        ELSE IF ~req.issuer THEN Fail(e, "DecodeError")
        ELSE LET asset == [nil |-> FALSE, ID |-> ic[e].tx, AssetType |-> req.atype,
                           NameLen |-> req.nameLen, Amount |-> req.amount,
                           Precision |-> precision, Owner |-> req.owner,
                           Admin |-> "admin", Issuer |-> "issuer",
                           Expiration |-> AddU32(bcHeight, ToU(DefaultAssetLifetime))]
             IN  Ok(PutAssetState(ic[e].mem, asset), PushAsset(asset))

\* a deviating assetRenew: the asset renewed is the one the handle holds
assetRenewFromHandle(e, as, years) ==
    IF ic[e].trigger # Application THEN Fail(e, "TriggerNotApplication")
    ELSE LET asset == as
             next == AddU32(bcHeight, U(0, 1))
             raised == IF LessU(asset.Expiration, next) THEN next ELSE asset.Expiration
             sum == AddU(raised, ToU(Byte(years) * BlocksPerYear))
             expiration == IF LessU(MaxUint32, sum) THEN MaxUint32 ELSE sum
         IN  IF asset.nil THEN Fail(e, "NotFound")
             ELSE Ok(PutAssetState(ic[e].mem, [asset EXCEPT !.Expiration = Uint32(expiration)]),
                     PushNum(expiration))

\* a deviating assetRenew: the sum is converted to uint32 without the clamp
assetRenewNoClamp(e, as, years) ==
    IF ic[e].trigger # Application THEN Fail(e, "TriggerNotApplication")
    ELSE LET asset == GetAssetState(ic[e].mem, as.ID)
             next == AddU32(bcHeight, U(0, 1))
             raised == IF LessU(asset.Expiration, next) THEN next ELSE asset.Expiration
             sum == AddU(raised, ToU(Byte(years) * BlocksPerYear))
         IN  IF asset.nil THEN Fail(e, "NotFound")
             ELSE Ok(PutAssetState(ic[e].mem, [asset EXCEPT !.Expiration = Uint32(sum)]),
                     PushNum(Uint32(sum)))

\* a deviating assetRenew: the second write-eligible trigger passes too
assetRenewAnyWriteTrigger(e, as, years) ==
    IF ic[e].trigger # Application /\ ic[e].trigger # ApplicationR
    THEN Fail(e, "TriggerNotApplication")
    ELSE LET asset == GetAssetState(ic[e].mem, as.ID)
             next == AddU32(bcHeight, U(0, 1))
             raised == IF LessU(asset.Expiration, next) THEN next ELSE asset.Expiration
             sum == AddU(raised, ToU(Byte(years) * BlocksPerYear))
             expiration == IF LessU(MaxUint32, sum) THEN MaxUint32 ELSE sum
         IN  IF asset.nil THEN Fail(e, "NotFound")
             ELSE Ok(PutAssetState(ic[e].mem, [asset EXCEPT !.Expiration = Uint32(expiration)]),
                     PushNum(expiration))

\* as is the asset handle popped, years the integer popped
assetRenew(e, as, years) ==
    IF ic[e].trigger # Application THEN Fail(e, "TriggerNotApplication")
    ELSE LET asset == GetAssetState(ic[e].mem, as.ID)
             next == AddU32(bcHeight, U(0, 1))
             raised == IF LessU(asset.Expiration, next) THEN next ELSE asset.Expiration
             sum == AddU(raised, ToU(Byte(years) * BlocksPerYear))
             expiration == IF LessU(MaxUint32, sum) THEN MaxUint32 ELSE sum
         IN  IF asset.nil THEN Fail(e, "NotFound")
             ELSE Ok(PutAssetState(ic[e].mem, [asset EXCEPT !.Expiration = Uint32(expiration)]),
                     PushNum(expiration))

\* a deviating contractGetStorageContext: a committed contract passes too
contractGetStorageContextAnyContract(e, cs) ==
    IF DAOGetContractState(ic[e].mem, cs.Script).nil
    THEN Fail(e, "NotCreatedThisExecution")
    ELSE Ok(ic[e].mem, PushContext(StorageContext(cs.Script, FALSE)))

\* a deviating contractGetStorageContext: the lookup (lines 575-577) left out
contractGetStorageContextUnchecked(e, cs) ==
    Ok(ic[e].mem, PushContext(StorageContext(cs.Script, FALSE)))

contractGetStorageContext(e, cs) ==
    IF getContractStateFromStore(ic[e].mem, cs.Script).nil
    THEN Fail(e, "NotCreatedThisExecution")
    ELSE Ok(ic[e].mem, PushContext(StorageContext(cs.Script, FALSE)))

(***************************************************************************)
(* The state machine.                                                      *)
(***************************************************************************)
NoStc == StorageContext("", FALSE)
NoKey == Key(<<>>, 0)
\* a handler call: its name and, for get, put and delete, the context and the
\* key, for create and migrate the contract passed
Call(op, stc, key) ==
    [op |-> op, stc |-> stc, key |-> key, cs |-> NilContract, as |-> NilAsset,
     arg |-> NoArg, item |-> NoItem, req |-> NoRequest, years |-> 0]
ContractCall(op, spec) == [Call(op, NoStc, NoKey) EXCEPT !.cs = spec]
AssetCall(op, as) == [Call(op, NoStc, NoKey) EXCEPT !.as = as]
ArgCall(op, arg) == [Call(op, NoStc, NoKey) EXCEPT !.arg = arg]
ItemCall(op, item) == [Call(op, NoStc, NoKey) EXCEPT !.item = item]
NoCall == Call("none", NoStc, NoKey)

IdleContext == [state |-> "idle", trigger |-> Verification, cur |-> "A", tx |-> 0,
                mem |-> EmptyMem, ctxs |-> {}, call |-> NoCall, err |-> "OK",
                push |-> PushNothing]

\* The committed ledgers the model starts from, each one left by earlier
\* executions: an empty ledger; contract A with storage and one item under the
\* one-byte key, not const or const; both contracts, B without storage.
K1 == Key(<<1>>, 0)
Ledger(csA, csB, itemA) ==
    [contracts |-> [h \in Hashes |-> IF h = "A" THEN csA ELSE csB],
     storage |-> [c \in Cells |-> IF c = <<"A", K1>> THEN itemA ELSE NilItem]]
InitLedgers ==
    { Ledger(NilContract, NilContract, NilItem),
      Ledger(Contract("A", TRUE, "n1"), NilContract, StorageItem(<<1>>, FALSE)),
      Ledger(Contract("A", TRUE, "n1"), Contract("B", TRUE, "n1"), StorageItem(<<1>>, TRUE)),
      Ledger(Contract("A", TRUE, "n1"), Contract("B", FALSE, "n1"), NilItem) }

\* no parameter converted, an empty wallet, a command line without program
NoParam == [op |-> "none", p |-> [Name |-> "", Type |-> 0], item |-> <<>>,
            out |-> [Name |-> "", Type |-> 0], err |-> "OK"]
NoWallet == [Accounts |-> <<>>, Tokens |-> <<>>, err |-> "OK", op |-> "none", arg |-> ""]
NoCLI == [loaded |-> FALSE, prog |-> <<>>, ip |-> 0, estack |-> <<>>, bps |-> {},
          state |-> "NONE", out |-> "", op |-> "none"]

\* no byte arrays
NoHeap == [arrays |-> <<>>, witness |-> 0, attribute |-> 0, script |-> 0, value |-> 0,
           estack |-> <<>>]

\* a chain without blocks
NoChain == [hashes |-> <<>>, headers |-> {}, blocks |-> {}, txs |-> {},
            verifying |-> [tx \in {} |-> {}]]

\* the ids of assets: 0 for one made before, and one per transaction
AssetIDs == 0..MaxRuns
NoAssets == [id \in AssetIDs |-> NilAsset]

Init ==
    /\ \E l \in InitLedgers : bcContracts = l.contracts /\ bcStorage = l.storage
    /\ bcAssets = NoAssets
    /\ bcHeight = U(0, 0)
    /\ bcChain = NoChain
    /\ heap = NoHeap
    /\ param = NoParam
    /\ wallet = NoWallet
    /\ vmcli = NoCLI
    /\ ic = [e \in Execs |-> IdleContext]
    /\ runs = 0
    /\ steps = 0

Running(e) == ic[e].state = "running"

\* A script holds both storage contexts of its own script hash from the moment
\* it runs (holding a context changes nothing until it is used).
ContextsOf(h) == {StorageContext(h, ro) : ro \in BOOLEAN}

\* A new interop context: a fresh, empty staged store.
Start(e, t, h) ==
    /\ ic[e].state # "running"
    /\ runs < MaxRuns
    /\ ic' = [ic EXCEPT ![e] = [IdleContext EXCEPT !.state = "running", !.trigger = t,
                                                   !.cur = h, !.ctxs = ContextsOf(h),
                                                   !.tx = runs + 1]]
    /\ runs' = runs + 1
    /\ UNCHANGED <<bcContracts, bcStorage, bcAssets, bcHeight, bcChain, heap, param, wallet, vmcli, steps>>

\* one interop context at a time (it takes the first slot)
NewInteropContext(e, t, h) ==
    /\ \A o \in Execs : ~Running(o)
    /\ e = 1
    /\ Start(e, t, h)

\* a second interop context beside a running one
NewConcurrentInteropContext(e, t, h) ==
    /\ \E o \in Execs : Running(o)
    /\ Start(e, t, h)

\* the ledgers with a committed item
InitConcurrent ==
    /\ Init
    /\ ~bcStorage[<<"A", K1>>].nil

\* a deviating interpreter: the error is recorded but the execution goes on
ReturnIgnoresError(e, call, res) ==
    ic' = [ic EXCEPT ![e] = [@ EXCEPT !.mem = res.mem, !.call = call, !.err = res.err,
                                      !.push = res.push]]

\* The interpreter takes the handler's outcome: an error faults the execution,
\* whose staged store is dead from then on (only a running execution is ever
\* merged); otherwise the store and the stack change.
Return(e, call, res) ==
    ic' = [ic EXCEPT ![e] =
              IF res.err = "OK"
              THEN [@ EXCEPT !.mem = res.mem, !.call = call, !.err = "OK", !.push = res.push,
                             !.ctxs = IF res.push.kind = "context"
                                      THEN @ \cup {res.push.stc} ELSE @]
              ELSE [@ EXCEPT !.state = "fault", !.call = call, !.err = res.err,
                             !.push = PushNothing]]

\* a handler that reads or writes state
Handle(e, call, res) ==
    /\ Running(e)
    /\ steps < MaxSteps
    /\ Return(e, call, res)
    /\ steps' = steps + 1
    /\ UNCHANGED <<bcContracts, bcStorage, bcAssets, bcHeight, bcChain, heap, param, wallet, vmcli, runs>>

\* a handler that only makes a storage context: the script keeps the context
\* (these handlers return no error)
MakeContext(e, res) ==
    /\ Running(e)
    /\ ic' = [ic EXCEPT ![e].ctxs = @ \cup {res.push.stc}]
    /\ UNCHANGED <<bcContracts, bcStorage, bcAssets, bcHeight, bcChain, heap, param, wallet, vmcli, runs, steps>>

StorageGet(e, stc, key) == Handle(e, Call("get", stc, key), storageGet(e, stc, key))

StoragePut(e, stc, key, value) ==
    Handle(e, Call("put", stc, key), storagePutInternal(e, stc, key, value, FALSE, 0))

StoragePutEx(e, stc, key, value, flag) ==
    Handle(e, Call("put", stc, key), storagePutInternal(e, stc, key, value, TRUE, flag))

StorageDelete(e, stc, key) == Handle(e, Call("delete", stc, key), storageDelete(e, stc, key))

StorageGetContext(e) == MakeContext(e, storageGetContext(e))

StorageGetReadOnlyContext(e) ==
    MakeContext(e, storageGetReadOnlyContext(e))

StorageContextAsReadOnly(e, stc) ==
    MakeContext(e, storageContextAsReadOnly(e, stc))

BcGetContract(e, h) == Handle(e, Call("getcontract", NoStc, NoKey), bcGetContract(e, h))

ContractCreate(e, spec) == Handle(e, ContractCall("create", spec), contractCreate(e, spec))

ContractMigrate(e, spec) == Handle(e, ContractCall("migrate", spec), contractMigrate(e, spec))

ContractDestroy(e) == Handle(e, Call("destroy", NoStc, NoKey), contractDestroy(e, ic[e].mem, PushNothing))

\* the contract handle popped is the one on top of the stack
ContractGetStorageContext(e) ==
    /\ ic[e].push.kind = "contract"
    /\ Handle(e, ContractCall("getstoragecontext", ic[e].push.cs),
              contractGetStorageContext(e, ic[e].push.cs))

\* the asset a request asks for
RequestedAsset(req) ==
    [NilAsset EXCEPT !.AssetType = req.atype, !.NameLen = req.nameLen, !.Amount = req.amount,
                     !.Precision = Byte(req.precision), !.Owner = req.owner]
AssetCreate(e, req) ==
    Handle(e, [AssetCall("assetcreate", RequestedAsset(req)) EXCEPT !.req = req],
           assetCreate(e, req))

\* the asset handle popped is one the ledger gave out or the one on top of
\* the stack
AssetHandles(e) ==
    {bcAssets[id] : id \in {i \in DOMAIN bcAssets : ~bcAssets[i].nil}}
        \cup (IF ic[e].push.kind = "asset" THEN {ic[e].push.as} ELSE {})
AssetRenew(e, as, years) ==
    /\ as \in AssetHandles(e)
    /\ Handle(e, [AssetCall("assetrenew", as) EXCEPT !.years = years],
              assetRenew(e, as, years))

\* bcGetContract from the bytes popped: a string that is no script hash is
\* an error
bcGetContractFromBytes(e, arg) ==
    LET hash == Uint160DecodeBytes(arg)
    IN  IF hash.err THEN Fail(e, "DecodeError") ELSE bcGetContract(e, hash.hash)

BcGetContractFromBytes(e, arg) ==
    Handle(e, ArgCall("getcontract", arg), bcGetContractFromBytes(e, arg))

BcGetBlock(e, arg) == Handle(e, ArgCall("getblock", arg), bcGetBlock(e, arg))

BcGetHeader(e, arg) == Handle(e, ArgCall("getheader", arg), bcGetHeader(e, arg))

BcGetTransaction(e, arg) == Handle(e, ArgCall("gettransaction", arg), bcGetTransaction(e, arg))

BcGetTransactionHeight(e, arg) ==
    Handle(e, ArgCall("gettransactionheight", arg), bcGetTransactionHeight(e, arg))

\* the value popped by an accessor is the one on top of the stack: an interop
\* item, or a value that is none
Popped(e) == IF ic[e].push.kind = "item" THEN ic[e].push.item ELSE NoItem
HeaderGet(e, f) ==
    /\ ic[e].push.kind # "none"
    /\ Handle(e, [ItemCall("headerget", Popped(e)) EXCEPT !.arg.body = f],
              headerGet(e, Popped(e), f))
BlockGetTransactionCount(e) ==
    /\ ic[e].push.kind # "none"
    /\ Handle(e, ItemCall("gettransactioncount", Popped(e)),
              blockGetTransactionCount(e, Popped(e)))
BlockGetTransactions(e) ==
    /\ ic[e].push.kind # "none"
    /\ Handle(e, ItemCall("gettransactions", Popped(e)), blockGetTransactions(e, Popped(e)))
BlockGetTransaction(e, index) ==
    /\ ic[e].push.kind # "none"
    /\ Handle(e, ItemCall("blockgettransaction", Popped(e)),
              blockGetTransaction(e, Popped(e), index))

RuntimeCheckWitness(e, arg) ==
    Handle(e, ArgCall("checkwitness", arg), runtimeCheckWitness(e, arg))

\* The interpreter calls into another contract: its script becomes the
\* executing one; the staged store and the stack stay.
AppCall(e, h) ==
    /\ Running(e)
    /\ steps < MaxSteps
    /\ h # ic[e].cur
    /\ ~GetContractState(h).nil
    /\ ic' = [ic EXCEPT ![e].cur = h, ![e].ctxs = @ \cup ContextsOf(h)]
    /\ steps' = steps + 1
    /\ UNCHANGED <<bcContracts, bcStorage, bcAssets, bcHeight, bcChain, heap, param, wallet, vmcli, runs>>

\* The execution ended without a fault and its transaction is accepted: the
\* staged store is merged into the ledger.
Persist(e) ==
    /\ Running(e)
    /\ bcContracts' = [h \in Hashes |->
                          CASE ic[e].mem.cs[h].st = "put" -> ic[e].mem.cs[h].cs
                            [] ic[e].mem.cs[h].st = "del" -> NilContract
                            [] OTHER -> bcContracts[h]]
    /\ bcStorage' = [c \in DOMAIN bcStorage |->
                          CASE ic[e].mem.si[c].st = "put" -> ic[e].mem.si[c].item
                            [] ic[e].mem.si[c].st = "del" -> NilItem
                            [] OTHER -> bcStorage[c]]
    /\ bcAssets' = [id \in DOMAIN bcAssets |->
                          IF ic[e].mem.as[id].st = "put" THEN ic[e].mem.as[id].as
                          ELSE bcAssets[id]]
    /\ ic' = [ic EXCEPT ![e] = IdleContext]
    /\ UNCHANGED <<bcHeight, bcChain, heap, param, wallet, vmcli, runs, steps>>

Flags == {0, 1}

Handlers(e) ==
    \/ \E stc \in ic[e].ctxs, key \in Keys : StorageGet(e, stc, key)
    \/ \E stc \in ic[e].ctxs, key \in Keys, value \in Values : StoragePut(e, stc, key, value)
    \/ \E stc \in ic[e].ctxs, key \in Keys, value \in Values, flag \in Flags :
           StoragePutEx(e, stc, key, value, flag)
    \/ \E stc \in ic[e].ctxs, key \in Keys : StorageDelete(e, stc, key)
    \/ StorageGetContext(e)
    \/ StorageGetReadOnlyContext(e)
    \/ \E stc \in ic[e].ctxs : StorageContextAsReadOnly(e, stc)
    \/ \E h \in Hashes : BcGetContract(e, h)
    \/ \E spec \in ContractSpecs : ContractCreate(e, spec)
    \/ \E spec \in ContractSpecs : ContractMigrate(e, spec)
    \/ ContractDestroy(e)
    \/ ContractGetStorageContext(e)
    \/ \E h \in Hashes : AppCall(e, h)
    \/ Persist(e)

Next ==
    \/ \E e \in Execs, t \in Triggers, h \in Hashes : NewInteropContext(e, t, h)
    \/ \E e \in Execs : Handlers(e)

NextConcurrent ==
    \/ Next
    \/ \E e \in Execs, h \in Hashes : NewConcurrentInteropContext(e, Application, h)

(***************************************************************************)
(* The storage handlers with find, over short keys that share prefixes.    *)
(***************************************************************************)
\* the capacity a popped prefix can have behind its bytes
MaxSpare == 1
\* the number of accounts, and of tokens, a wallet holds at most
MaxEntries == 2

FindKeys == {Key(<<1, 1>>, 0), Key(<<1, 2>>, 0), Key(<<2>>, 0)}
Prefixes == {<<>>, <<1>>, <<2>>}

\* Contract A has storage; B is missing or has none.  A's committed items:
\* none, one, or one under each key.
FindLedger(csB, items) ==
    [contracts |-> [h \in Hashes |-> IF h = "A" THEN Contract("A", TRUE, "n1") ELSE csB],
     storage |-> [c \in Hashes \X FindKeys |->
                     IF c[1] = "A" /\ c[2] \in DOMAIN items
                     THEN StorageItem(items[c[2]], FALSE) ELSE NilItem]]
FindItems ==
    { [k \in {} |-> <<>>],
      [k \in {Key(<<1, 1>>, 0)} |-> <<1>>],
      [k \in FindKeys |-> IF k = Key(<<1, 2>>, 0) THEN <<2>> ELSE <<1>>] }
FindLedgers ==
    {FindLedger(csB, items) : csB \in {NilContract, Contract("B", FALSE, "n1")},
                              items \in FindItems}

InitFind ==
    /\ \E l \in FindLedgers : bcContracts = l.contracts /\ bcStorage = l.storage
    /\ bcAssets = NoAssets
    /\ bcHeight = U(0, 0)
    /\ bcChain = NoChain
    /\ heap = NoHeap
    /\ param = NoParam
    /\ wallet = NoWallet
    /\ vmcli = NoCLI
    /\ ic = [e \in Execs |-> IdleContext]
    /\ runs = 0
    /\ steps = 0

StorageFind(e, stc, prefix, spare, order) ==
    Handle(e, Call("find", stc, Key(prefix, 0)), storageFind(e, stc, prefix, spare, order))

FindHandlers(e) ==
    \/ \E stc \in ic[e].ctxs, key \in FindKeys : StorageGet(e, stc, key)
    \/ \E stc \in ic[e].ctxs, key \in FindKeys, value \in Values : StoragePut(e, stc, key, value)
    \/ \E stc \in ic[e].ctxs, key \in FindKeys : StorageDelete(e, stc, key)
    \/ \E stc \in ic[e].ctxs, prefix \in Prefixes, spare \in 0..MaxSpare :
          \E order \in RangeOrders(GetStorageItemsWithPrefix(stc.ScriptHash, prefix)) :
              StorageFind(e, stc, prefix, spare, order)
    \/ Persist(e)

\* Contracts A and B both have storage, and committed items under keys with
\* the same bytes.
NamespaceLedger(itemsA, itemsB) ==
    [contracts |-> [h \in Hashes |-> Contract(h, TRUE, "n1")],
     storage |-> [c \in Hashes \X FindKeys |->
                     LET items == IF c[1] = "A" THEN itemsA ELSE itemsB
                     IN  IF c[2] \in DOMAIN items
                         THEN StorageItem(items[c[2]], FALSE) ELSE NilItem]]
NamespaceLedgers ==
    { NamespaceLedger([k \in {Key(<<1, 1>>, 0)} |-> <<1>>],
                      [k \in {Key(<<1, 1>>, 0), Key(<<1, 2>>, 0)} |-> <<2>>]),
      NamespaceLedger([k \in {} |-> <<>>], [k \in {Key(<<2>>, 0)} |-> <<1>>]) }

InitNamespaces ==
    /\ \E l \in NamespaceLedgers : bcContracts = l.contracts /\ bcStorage = l.storage
    /\ bcAssets = NoAssets
    /\ bcHeight = U(0, 0)
    /\ bcChain = NoChain
    /\ heap = NoHeap
    /\ param = NoParam
    /\ wallet = NoWallet
    /\ vmcli = NoCLI
    /\ ic = [e \in Execs |-> IdleContext]
    /\ runs = 0
    /\ steps = 0

\* the storage handlers of a script that calls into the other contract
NextNamespaces ==
    \/ \E e \in Execs, h \in Hashes : NewInteropContext(e, Application, h)
    \/ \E e \in Execs : FindHandlers(e)
    \/ \E e \in Execs, h \in Hashes : AppCall(e, h)

NextFind ==
    \/ \E e \in Execs, t \in Triggers, h \in Hashes : NewInteropContext(e, t, h)
    \/ \E e \in Execs : FindHandlers(e)

(***************************************************************************)
(* The contract and asset handlers, with arguments at and over the limits. *)
(***************************************************************************)
\* a contract with every field as long as it may be, and the ones with one
\* field a byte (an entry) longer
SizedSpecs ==
    UNION { {Contract(h, TRUE, MaxName), Contract(h, TRUE, LongName)}
            \cup {[Contract(h, TRUE, MaxName) EXCEPT !.Sizes[f] = @ + 1] : f \in SizeFields} :
            h \in Hashes }

\* an asset with a name as long as it may be, one with a name a byte longer,
\* and ones that other checks reject
AssetRequests ==
    { AssetRequest(Token, MaxAssetNameLen, Fixed8Unit, 8, "witnessed", TRUE, TRUE),
      AssetRequest(Token, MaxAssetNameLen + 1, Fixed8Unit, 8, "witnessed", TRUE, TRUE),
      AssetRequest(GoverningToken, MaxAssetNameLen, Fixed8Unit, 8, "witnessed", TRUE, TRUE),
      AssetRequest(Share, MaxAssetNameLen, Fixed8Unit, 0, "unwitnessed", TRUE, TRUE) }
Years == {0, 1}

\* an asset made by an earlier transaction, at a chain height of five
Asset0 == [NilAsset EXCEPT !.nil = FALSE, !.AssetType = Token, !.NameLen = 1,
                           !.Amount = Fixed8Unit, !.Precision = 8, !.Owner = "witnessed",
                           !.Admin = "admin", !.Issuer = "issuer",
                           !.Expiration = AddU32(U(0, 5), ToU(DefaultAssetLifetime))]

InitLifecycle ==
    /\ \E l \in {Ledger(Contract("A", TRUE, "n1"), NilContract, StorageItem(<<1>>, FALSE)),
                 Ledger(Contract("A", TRUE, "n1"), Contract("B", TRUE, "n1"), NilItem)} :
           bcContracts = l.contracts /\ bcStorage = l.storage
    /\ bcAssets \in {NoAssets, [NoAssets EXCEPT ![0] = Asset0]}
    /\ bcHeight = U(0, 7)
    /\ bcChain = NoChain
    /\ heap = NoHeap
    /\ param = NoParam
    /\ wallet = NoWallet
    /\ vmcli = NoCLI
    /\ ic = [e \in Execs |-> IdleContext]
    /\ runs = 0
    /\ steps = 0

LifecycleHandlers(e) ==
    \/ \E stc \in ic[e].ctxs, key \in Keys : StoragePut(e, stc, key, <<1>>)
    \/ \E spec \in SizedSpecs : ContractCreate(e, spec)
    \/ \E spec \in SizedSpecs : ContractMigrate(e, spec)
    \/ ContractDestroy(e)
    \/ \E req \in AssetRequests : AssetCreate(e, req)
    \/ \E as \in AssetHandles(e), years \in Years : AssetRenew(e, as, years)
    \/ Persist(e)

NextLifecycle ==
    \/ \E e \in Execs, t \in Triggers, h \in Hashes : NewInteropContext(e, t, h)
    \/ \E e \in Execs : LifecycleHandlers(e)

(***************************************************************************)
(* Ledger queries and witness checks over a chain of three headers, the     *)
(* blocks of the first two stored, with two transactions in the second.     *)
(***************************************************************************)
Header(index, hash, prev, ts, merkle) ==
    [nil |-> FALSE, Index |-> index, Hash |-> hash, PrevHash |-> prev, Timestamp |-> ts,
     Version |-> 0, MerkleRoot |-> merkle, NextConsensus |-> "validators"]
Header0 == Header(0, "b0", ZeroHash, 100, "m0")
Header1 == Header(1, "b1", "b0", 115, "m1")
Header2 == Header(2, "b2", "b1", 130, "m2")

\* what the ledger answers when asked for the script hashes of a container
Verifyings ==
    {[err |-> FALSE, hashes |-> <<"A", "sig:k1">>],
     [err |-> FALSE, hashes |-> <<>>],
     [err |-> TRUE, hashes |-> <<>>]}

Chain(verifying) ==
    [hashes |-> <<"b0", "b1", "b2">>,
     headers |-> {Header0, Header1, Header2},
     blocks |-> {BlockItem(Header0, <<>>), BlockItem(Header1, <<"t1", "t2">>)},
     txs |-> {[hash |-> "t1", height |-> 1], [hash |-> "t2", height |-> 1]},
     verifying |-> [tx \in 1..(MaxRuns + 1) |-> verifying]]

InitLedger ==
    /\ LET l == Ledger(Contract("A", TRUE, "n1"), NilContract, StorageItem(<<1>>, FALSE))
       IN  bcContracts = l.contracts /\ bcStorage = l.storage
    /\ bcAssets = NoAssets
    /\ bcHeight = U(0, 2)
    /\ \E v \in Verifyings : bcChain = Chain(v)
    /\ heap = NoHeap
    /\ param = NoParam
    /\ wallet = NoWallet
    /\ vmcli = NoCLI
    /\ ic = [e \in Execs |-> IdleContext]
    /\ runs = 0
    /\ steps = 0

\* the strings a script passes to the witness check: script hashes, encoded
\* keys (compressed, uncompressed, infinity), and strings that are neither
WitnessArgs ==
    {HashArg(20, "A"), HashArg(20, "B"), HashArg(20, "sig:k1"),
     KeyArg(33, 2, "k1", TRUE), KeyArg(33, 3, "k2", TRUE), KeyArg(65, 4, "k1", TRUE),
     KeyArg(1, 0, "", FALSE),
     KeyArg(33, 2, "k1", FALSE), KeyArg(33, 5, "k1", TRUE), HashArg(19, "A"), HashArg(0, "")}

\* the strings a script passes to a block or header lookup: integers of
\* five bytes at most (0, 1, 2, 3, 2^31, 2^32 - 1, 2^32, -1, -2^39) and
\* longer strings, of 32 bytes or not
IndexArgs ==
    {IntArg(<<>>), IntArg(<<1>>), IntArg(<<2>>), IntArg(<<3>>),
     IntArg(<<0, 0, 0, 128, 0>>), IntArg(<<255, 255, 255, 255, 0>>),
     IntArg(<<0, 0, 0, 0, 1>>), IntArg(<<255>>), IntArg(<<255, 255, 255, 255>>),
     IntArg(<<0, 0, 0, 0, 128>>)}
HashArgs ==
    {HashArg(32, "b0"), HashArg(32, "b1"), HashArg(32, "b2"), HashArg(32, "t1"),
     HashArg(32, "t2"), HashArg(32, "none"), HashArg(32, ZeroHash),
     HashArg(6, "b0"), HashArg(31, "b1"), HashArg(33, "t1")}
LookupArgs == IndexArgs \cup HashArgs
ContractArgs == {HashArg(20, "A"), HashArg(20, "B"), HashArg(19, "A"), HashArg(32, "A")}
Positions == {-1, 0, 1, 2}

LedgerHandlers(e) ==
    \/ \E arg \in WitnessArgs : RuntimeCheckWitness(e, arg)
    \/ \E arg \in LookupArgs : BcGetBlock(e, arg)
    \/ \E arg \in LookupArgs : BcGetHeader(e, arg)
    \/ \E arg \in LookupArgs : BcGetTransaction(e, arg)
    \/ \E arg \in LookupArgs : BcGetTransactionHeight(e, arg)
    \/ \E arg \in ContractArgs : BcGetContractFromBytes(e, arg)
    \/ \E f \in HeaderAccessors : HeaderGet(e, f)
    \/ BlockGetTransactionCount(e)
    \/ BlockGetTransactions(e)
    \/ \E index \in Positions : BlockGetTransaction(e, index)
    \/ Persist(e)

NextLedger ==
    \/ \E e \in Execs, t \in Triggers, h \in Hashes : NewInteropContext(e, t, h)
    \/ \E e \in Execs : LedgerHandlers(e)

(***************************************************************************)
(* Asset create and renew over the whole range of block heights, with       *)
(* precisions and years beyond a byte.                                      *)
(***************************************************************************)
\* 2^32 - 1 - DefaultAssetLifetime, the last height whose default
\* expiration fits 32 bits
LastFittingHeight == U(Limb - 1 - 30, Limb - 1 - 33921)
Heights == {U(0, 7), LastFittingHeight, AddU(LastFittingHeight, U(0, 1)), MaxUint32}

\* an asset that expired, one that expires later, one that never does
AssetAt(expiration) == [Asset0 EXCEPT !.Expiration = expiration]
LedgerAssets == {AssetAt(U(0, 3)), AssetAt(U(30, 33926)), AssetAt(MaxUint32)}

WideRequests ==
    { AssetRequest(Token, MaxAssetNameLen, Fixed8Unit, 8, "witnessed", TRUE, TRUE),
      AssetRequest(Token, MaxAssetNameLen + 1, Fixed8Unit, 8, "witnessed", TRUE, TRUE),
      AssetRequest(GoverningToken, 1, Fixed8Unit, 8, "witnessed", TRUE, TRUE),
      AssetRequest(Currency, 1, 200000, 3, "witnessed", TRUE, TRUE),
      AssetRequest(Currency, 1, 1500, 3, "witnessed", TRUE, TRUE),
      AssetRequest(Token, 1, 0, 8, "witnessed", TRUE, TRUE),
      AssetRequest(Token, 1, -2, 8, "witnessed", TRUE, TRUE),
      AssetRequest(Token, 1, -Satoshi, 3, "witnessed", TRUE, TRUE),
      AssetRequest(Invoice, 1, -Satoshi, 8, "witnessed", TRUE, TRUE),
      AssetRequest(Invoice, 1, Fixed8Unit, 8, "witnessed", TRUE, TRUE),
      AssetRequest(Token, 1, Fixed8Unit, 9, "witnessed", TRUE, TRUE),
      AssetRequest(Token, 1, Fixed8Unit, 255, "witnessed", TRUE, TRUE),
      AssetRequest(Token, 1, Fixed8Unit, 256, "witnessed", TRUE, TRUE),
      AssetRequest(Token, 1, Fixed8Unit, 264, "witnessed", TRUE, TRUE),
      AssetRequest(Share, 1, Fixed8Unit, 0, "witnessed", TRUE, TRUE),
      AssetRequest(Share, 1, Fixed8Unit, 1, "witnessed", TRUE, TRUE),
      AssetRequest(Token, 1, Fixed8Unit, 0, "malformed", TRUE, TRUE),
      AssetRequest(Token, 1, Fixed8Unit, 0, "infinity", TRUE, TRUE),
      AssetRequest(Token, 1, Fixed8Unit, 0, "unwitnessed", TRUE, TRUE),
      AssetRequest(Token, 1, Fixed8Unit, 0, "witnessed", FALSE, TRUE),
      AssetRequest(Token, 1, Fixed8Unit, 0, "witnessed", TRUE, FALSE) }
WideYears == {0, 1, 255, 256, 257}

InitAssets ==
    /\ LET l == Ledger(Contract("A", TRUE, "n1"), NilContract, StorageItem(<<1>>, FALSE))
       IN  bcContracts = l.contracts /\ bcStorage = l.storage
    /\ \E as \in LedgerAssets : bcAssets = [NoAssets EXCEPT ![0] = as]
    /\ bcHeight \in Heights
    /\ bcChain = NoChain
    /\ heap = NoHeap
    /\ param = NoParam
    /\ wallet = NoWallet
    /\ vmcli = NoCLI
    /\ ic = [e \in Execs |-> IdleContext]
    /\ runs = 0
    /\ steps = 0

AssetHandlers(e) ==
    \/ \E req \in WideRequests : AssetCreate(e, req)
    \/ \E as \in AssetHandles(e), years \in WideYears : AssetRenew(e, as, years)
    \/ Persist(e)

NextAssets ==
    \/ \E e \in Execs, t \in {Application, ApplicationR} : NewInteropContext(e, t, "A")
    \/ \E e \in Execs : AssetHandlers(e)

(***************************************************************************)
(* Asset renew through handles that are older than the asset stored under   *)
(* their id, or whose asset is stored no more.                              *)
(***************************************************************************)
HandleExpirations == {U(0, 1), U(30, 33926), MaxUint32}

\* the handles a script may hold: a snapshot, taken at some time, of an asset
\* that is or was stored
HeldHandles(e) ==
    {[Asset0 EXCEPT !.ID = id, !.Expiration = x] : id \in AssetIDs, x \in HandleExpirations}
        \cup AssetHandles(e)

AssetRenewHeld(e, as, years) ==
    /\ as \in HeldHandles(e)
    /\ Handle(e, [AssetCall("assetrenew", as) EXCEPT !.years = years],
              assetRenew(e, as, years))

InitHandles ==
    /\ LET l == Ledger(Contract("A", TRUE, "n1"), NilContract, StorageItem(<<1>>, FALSE))
       IN  bcContracts = l.contracts /\ bcStorage = l.storage
    /\ bcAssets \in {NoAssets, [NoAssets EXCEPT ![0] = Asset0],
                      [NoAssets EXCEPT ![0] = AssetAt(U(0, 3))]}
    /\ bcHeight = U(0, 7)
    /\ bcChain = NoChain
    /\ heap = NoHeap
    /\ param = NoParam
    /\ wallet = NoWallet
    /\ vmcli = NoCLI
    /\ ic = [e \in Execs |-> IdleContext]
    /\ runs = 0
    /\ steps = 0

HandleHandlers(e) ==
    \/ \E req \in AssetRequests : AssetCreate(e, req)
    \/ \E as \in HeldHandles(e), years \in Years : AssetRenewHeld(e, as, years)
    \/ Persist(e)

NextHandles ==
    \/ \E e \in Execs, t \in {Application, ApplicationR} : NewInteropContext(e, t, "A")
    \/ \E e \in Execs : HandleHandlers(e)

(***************************************************************************)
(* Byte buffers.  A []byte is a slice of an array; two slices of one array  *)
(* see each other's writes.  The witness, the attribute, the contract and   *)
(* the storage item each hold a slice, and so does every byte string on the *)
(* evaluation stack.                                                        *)
(***************************************************************************)
Bytes(id) == heap.arrays[id]

\* v.Estack().PushVal(slice): the stack item holds the slice it is given
PushSlice(h, id) == [h EXCEPT !.estack = Append(@, id)]

\* make([]byte, len(b)); copy(script, b): a new array with the bytes of b
CopyOf(h, id) == [h EXCEPT !.arrays = Append(@, h.arrays[id])]

\* a deviating witnessGetVerificationScript: the slice of the witness is pushed
witnessGetVerificationScriptShared(h) == PushSlice(h, h.witness)

witnessGetVerificationScript(h) == PushSlice(CopyOf(h, h.witness), Len(h.arrays) + 1)

attrGetData(h) == PushSlice(h, h.attribute)

contractGetScript(h) == PushSlice(h, h.script)

\* storageGet, the slice it pushes for an item that exists
storageGetValue(h) == PushSlice(h, h.value)

\* putWithContextAndFlags, si.Value = value: the item holds the slice popped
storagePutValue(h) ==
    [h EXCEPT !.value = h.estack[Len(h.estack)], !.estack = SubSeq(@, 1, Len(@) - 1)]

\* the interpreter writes a byte of a buffer it holds, in place
WriteByte(h, i, b) == [h EXCEPT !.arrays[h.estack[i]][1] = b]

BufferStep(h) ==
    /\ steps < MaxSteps
    /\ heap' = h
    /\ steps' = steps + 1
    /\ UNCHANGED <<bcContracts, bcStorage, bcAssets, bcHeight, bcChain, param, wallet, vmcli,
                   ic, runs>>

WitnessGetVerificationScript == BufferStep(witnessGetVerificationScript(heap))
AttrGetData == BufferStep(attrGetData(heap))
ContractGetScript == BufferStep(contractGetScript(heap))
StorageGetValue == BufferStep(storageGetValue(heap))
StoragePutValue == heap.estack # <<>> /\ BufferStep(storagePutValue(heap))
InterpreterWrite ==
    \E i \in 1..Len(heap.estack), b \in {8, 9} : BufferStep(WriteByte(heap, i, b))

InitBuffers ==
    /\ LET l == Ledger(Contract("A", TRUE, "n1"), NilContract, StorageItem(<<1>>, FALSE))
       IN  bcContracts = l.contracts /\ bcStorage = l.storage
    /\ bcAssets = NoAssets
    /\ bcHeight = U(0, 0)
    /\ bcChain = NoChain
    /\ \E w \in {<<1>>, <<1, 2>>}, v \in {<<1>>, <<6, 7>>} :
           heap = [NoHeap EXCEPT !.arrays = <<w, <<3>>, <<4, 5>>, v>>, !.witness = 1,
                                 !.attribute = 2, !.script = 3, !.value = 4]
    /\ param = NoParam
    /\ wallet = NoWallet
    /\ vmcli = NoCLI
    /\ ic = [e \in Execs |-> IdleContext]
    /\ runs = 0
    /\ steps = 0

NextBuffers ==
    \/ WitnessGetVerificationScript
    \/ AttrGetData
    \/ ContractGetScript
    \/ StorageGetValue
    \/ StoragePutValue
    \/ InterpreterWrite

(***************************************************************************)
(* Manifest parameters and their stack items.                              *)
(***************************************************************************)
\* A stack item: its type, for a Struct or an Array its elements, for a byte
\* string its bytes as text and whether they are valid UTF-8, for an integer
\* whether it fits an int64, its value if so, and else the value Int64()
\* happens to give (undefined by math/big: any int64)
LeafItem(type) ==
    [type |-> type, str |-> "", utf8 |-> FALSE, fits |-> TRUE, val |-> 0, low |-> 0]
NewByteArray(str, utf8) == [LeafItem("ByteArray") EXCEPT !.str = str, !.utf8 = utf8]
NewBigInteger(val) == [LeafItem("Integer") EXCEPT !.val = val, !.low = val]
\* an integer beyond int64, for which Int64() gives low
WideInteger(low) == [LeafItem("Integer") EXCEPT !.fits = FALSE, !.low = low]
NewStruct(elems) == [type |-> "Struct", elems |-> elems]
NewArray(elems) == [type |-> "Array", elems |-> elems]

\* Parameter{Name, Type}
NewParameter(name, typ) == [Name |-> name, Type |-> typ]

\* the values of smartcontract.ParamType that ConvertToParamType accepts
ValidParamTypes == {0, 16, 17, 18, 19, 20, 21, 22, 23, 32, 34, 48, 255}

\* smartcontract.ConvertToParamType
ConvertToParamType(val) ==
    IF val \in ValidParamTypes THEN [err |-> "OK", typ |-> val]
    ELSE [err |-> "InvalidParamType", typ |-> 255]

\* stackitem.ToString: the text of an item that converts to bytes, when the
\* bytes are valid UTF-8
ItemToString(item) ==
    IF item.type = "ByteArray" /\ item.utf8 THEN [err |-> "OK", str |-> item.str]
    ELSE [err |-> "InvalidConversion", str |-> ""]

\* Item.TryInteger: the integer of an Integer item, and of a byte string that
\* encodes one
TryInteger(item) ==
    IF item.type = "Integer" THEN [err |-> "OK", typ |-> item]
    ELSE IF item.type = "ByteArray" /\ item.fits
    THEN [err |-> "OK", typ |-> NewBigInteger(item.val)]
    ELSE [err |-> "InvalidConversion", typ |-> NewBigInteger(0)]

\* big.Int.Int64
Int64(x) == IF x.fits THEN x.val ELSE x.low

\* a deviating ToStackItem: an Array is made
ToStackItemArray(p) == NewArray(<<NewByteArray(p.Name, TRUE), NewBigInteger(p.Type)>>)

ToStackItem(p) == NewStruct(<<NewByteArray(p.Name, TRUE), NewBigInteger(p.Type)>>)

\* a deviating FromStackItem: the length of the Struct is not looked at
FromStackItemAnyLength(item) ==
    IF item.type # "Struct" \/ Len(item.elems) < 2
    THEN [err |-> "InvalidType", p |-> NewParameter("", 0)]
    ELSE LET name == ItemToString(item.elems[1])
             typ == TryInteger(item.elems[2])
             ptype == ConvertToParamType(Int64(typ.typ))
         IN  IF name.err # "OK" THEN [err |-> name.err, p |-> NewParameter("", 0)]
             ELSE IF typ.err # "OK" THEN [err |-> typ.err, p |-> NewParameter(name.str, 0)]
             ELSE IF ptype.err # "OK"
             THEN [err |-> ptype.err, p |-> NewParameter(name.str, ptype.typ)]
             ELSE [err |-> "OK", p |-> NewParameter(name.str, ptype.typ)]

\* the error ("OK" for nil) and the Parameter as FromStackItem leaves it
FromStackItem(item) ==
    IF item.type # "Struct" THEN [err |-> "InvalidType", p |-> NewParameter("", 0)]
    ELSE IF Len(item.elems) # 2 THEN [err |-> "InvalidLength", p |-> NewParameter("", 0)]
    ELSE LET name == ItemToString(item.elems[1])
             typ == TryInteger(item.elems[2])
             ptype == ConvertToParamType(Int64(typ.typ))
         IN  IF name.err # "OK" THEN [err |-> name.err, p |-> NewParameter("", 0)]
             ELSE IF typ.err # "OK" THEN [err |-> typ.err, p |-> NewParameter(name.str, 0)]
             ELSE IF ptype.err # "OK"
             THEN [err |-> ptype.err, p |-> NewParameter(name.str, ptype.typ)]
             ELSE [err |-> "OK", p |-> NewParameter(name.str, ptype.typ)]

ParamNames == {"", "param", "p2"}
Parameters == {NewParameter(n, t) : n \in ParamNames, t \in ValidParamTypes}

\* the items FromStackItem is given besides those ToStackItem makes
Leaves ==
    {NewByteArray("", TRUE), NewByteArray("bad", FALSE), LeafItem("Null"),
     LeafItem("Interop"), NewBigInteger(19), NewBigInteger(1), NewBigInteger(-100500),
     NewBigInteger(256), WideInteger(16), WideInteger(1)}
GivenItems ==
    {NewArray(<<>>), NewStruct(<<>>), NewArray(<<NewByteArray("", TRUE), NewBigInteger(19)>>),
     NewStruct(<<NewByteArray("", TRUE)>>),
     NewStruct(<<NewByteArray("", TRUE), NewBigInteger(19), NewBigInteger(19)>>)}
        \cup {NewStruct(<<a, b>>) : a, b \in Leaves}
        \cup {[type |-> l.type, elems |-> <<>>] : l \in Leaves}

ParameterToStackItem(p) ==
    /\ param' = [NoParam EXCEPT !.op = "to", !.p = p, !.item = ToStackItem(p)]
    /\ UNCHANGED <<bcContracts, bcStorage, bcAssets, bcHeight, bcChain, heap, wallet, vmcli,
                   ic, runs, steps>>

ParameterFromStackItem(item) ==
    /\ param' = [param EXCEPT !.op = "from", !.item = item, !.out = FromStackItem(item).p,
                              !.err = FromStackItem(item).err]
    /\ UNCHANGED <<bcContracts, bcStorage, bcAssets, bcHeight, bcChain, heap, wallet, vmcli,
                   ic, runs, steps>>

InitManifest ==
    /\ LET l == Ledger(Contract("A", TRUE, "n1"), NilContract, StorageItem(<<1>>, FALSE))
       IN  bcContracts = l.contracts /\ bcStorage = l.storage
    /\ bcAssets = NoAssets
    /\ bcHeight = U(0, 0)
    /\ bcChain = NoChain
    /\ heap = NoHeap
    /\ param = NoParam
    /\ wallet = NoWallet
    /\ vmcli = NoCLI
    /\ ic = [e \in Execs |-> IdleContext]
    /\ runs = 0
    /\ steps = 0

NextManifest ==
    \/ \E p \in Parameters : ParameterToStackItem(p)
    \/ param.op = "to" /\ ParameterFromStackItem(param.item)
    \/ \E item \in GivenItems : ParameterFromStackItem(item)

(***************************************************************************)
(* The wallet: a list of accounts, each with an address, and a list of      *)
(* tokens, each with a hash.                                                *)
(***************************************************************************)
\* the index of the first entry equal to id, 0 when there is none
RECURSIVE IndexFrom(_, _, _)
IndexFrom(list, id, i) ==
    IF i > Len(list) THEN 0
    ELSE IF list[i] = id THEN i
    ELSE IndexFrom(list, id, i + 1)
IndexOf(list, id) == IndexFrom(list, id, 1)

\* copy(list[i:], list[i+1:]); list = list[:len(list)-1]
RemoveAt(list, i) == SubSeq(list, 1, i - 1) \o SubSeq(list, i + 1, Len(list))

\* the list without any entry equal to id
RECURSIVE Without(_, _)
Without(list, id) ==
    IF list = <<>> THEN <<>>
    ELSE IF Head(list) = id THEN Without(Tail(list), id)
    ELSE <<Head(list)>> \o Without(Tail(list), id)

AddAccount(w, acc) ==
    [w EXCEPT !.Accounts = Append(@, acc), !.err = "OK", !.op = "AddAccount", !.arg = acc]

\* a deviating RemoveAccount: every account with the address is removed
RemoveAccountEvery(w, addr) ==
    IF IndexOf(w.Accounts, addr) = 0
    THEN [w EXCEPT !.err = "NotFound", !.op = "RemoveAccount", !.arg = addr]
    ELSE [w EXCEPT !.Accounts = Without(@, addr), !.err = "OK", !.op = "RemoveAccount",
                   !.arg = addr]

RemoveAccount(w, addr) ==
    IF IndexOf(w.Accounts, addr) = 0
    THEN [w EXCEPT !.err = "NotFound", !.op = "RemoveAccount", !.arg = addr]
    ELSE [w EXCEPT !.Accounts = RemoveAt(@, IndexOf(@, addr)), !.err = "OK",
                   !.op = "RemoveAccount", !.arg = addr]

AddToken(w, tok) ==
    [w EXCEPT !.Tokens = Append(@, tok), !.err = "OK", !.op = "AddToken", !.arg = tok]

RemoveToken(w, h) ==
    IF IndexOf(w.Tokens, h) = 0
    THEN [w EXCEPT !.err = "NotFound", !.op = "RemoveToken", !.arg = h]
    ELSE [w EXCEPT !.Tokens = RemoveAt(@, IndexOf(@, h)), !.err = "OK",
                   !.op = "RemoveToken", !.arg = h]

Addresses == {"real", "abc", "other"}
TokenHashes == {"010203", "040506"}

WalletStep(w) ==
    /\ wallet' = w
    /\ UNCHANGED <<bcContracts, bcStorage, bcAssets, bcHeight, bcChain, heap, param, vmcli,
                   ic, runs, steps>>

WalletAddAccount(acc) == Len(wallet.Accounts) < MaxEntries /\ WalletStep(AddAccount(wallet, acc))
WalletRemoveAccount(addr) == WalletStep(RemoveAccount(wallet, addr))
WalletAddToken(tok) == Len(wallet.Tokens) < MaxEntries /\ WalletStep(AddToken(wallet, tok))
WalletRemoveToken(h) == WalletStep(RemoveToken(wallet, h))

NextWallet ==
    \/ \E acc \in Addresses : WalletAddAccount(acc)
    \/ \E addr \in Addresses : WalletRemoveAccount(addr)
    \/ \E tok \in TokenHashes : WalletAddToken(tok)
    \/ \E h \in TokenHashes : WalletRemoveToken(h)

(***************************************************************************)
(* The VM command line: a loaded program of one-byte instructions, the      *)
(* instruction pointer, the evaluation stack and the breakpoints.           *)
(***************************************************************************)
PUSH(n) == [op |-> "PUSH", n |-> n]
ADD == [op |-> "ADD", n |-> 0]

\* one instruction on the evaluation stack
Execute(instr, stack) ==
    IF instr.op = "PUSH" THEN [fault |-> FALSE, stack |-> Append(stack, instr.n)]
    ELSE IF Len(stack) < 2 THEN [fault |-> TRUE, stack |-> stack]
    ELSE [fault |-> FALSE,
          stack |-> Append(SubSeq(stack, 1, Len(stack) - 2),
                           stack[Len(stack) - 1] + stack[Len(stack)])]

\* a deviating run: the breakpoint is noticed after its instruction has run
RECURSIVE RunPastBreakpoint(_)
RunPastBreakpoint(c) ==
    IF c.ip >= Len(c.prog) THEN [c EXCEPT !.state = "HALT"]
    ELSE LET r == Execute(c.prog[c.ip + 1], c.estack)
             n == [c EXCEPT !.ip = c.ip + 1, !.estack = r.stack]
         IN  IF r.fault THEN [c EXCEPT !.state = "FAULT"]
             ELSE IF c.ip \in c.bps THEN [n EXCEPT !.state = "BREAK"]
             ELSE RunPastBreakpoint(n)

\* the VM runs: one instruction at least, then on until the instruction
\* pointer is at a breakpoint or the program has ended
RECURSIVE Run(_)
Run(c) ==
    IF c.ip >= Len(c.prog) THEN [c EXCEPT !.state = "HALT"]
    ELSE LET r == Execute(c.prog[c.ip + 1], c.estack)
             n == [c EXCEPT !.ip = c.ip + 1, !.estack = r.stack]
         IN  IF r.fault THEN [c EXCEPT !.state = "FAULT"]
             ELSE IF n.ip >= Len(n.prog) THEN [n EXCEPT !.state = "HALT"]
             ELSE IF n.ip \in n.bps THEN [n EXCEPT !.state = "BREAK"]
             ELSE Run(n)

Digits == <<"0", "1", "2", "3", "4">>
\* strconv.Atoi on the arguments the command line is given here
Atoi(str) ==
    IF \E i \in 1..Len(Digits) : Digits[i] = str
    THEN [ok |-> TRUE, n |-> (CHOOSE i \in 1..Len(Digits) : Digits[i] = str) - 1]
    ELSE [ok |-> FALSE, n |-> 0]

NoProgramLoaded == "no program loaded"

loadhex(c, prog) ==
    [loaded |-> TRUE, prog |-> prog, ip |-> 0, estack |-> <<>>, bps |-> {},
     state |-> "NONE", out |-> "READY", op |-> "loadhex"]

break(c, arg) ==
    IF ~c.loaded THEN [c EXCEPT !.out = NoProgramLoaded, !.op = "break"]
    ELSE IF arg = "" THEN [c EXCEPT !.out = "ErrMissingParameter", !.op = "break"]
    ELSE IF ~Atoi(arg).ok THEN [c EXCEPT !.out = "ErrInvalidParameter", !.op = "break"]
    ELSE [c EXCEPT !.bps = @ \cup {Atoi(arg).n}, !.out = "breakpoint added",
                   !.op = "break"]

cont(c, cmd) ==
    IF ~c.loaded THEN [c EXCEPT !.out = NoProgramLoaded, !.op = cmd]
    ELSE [Run(c) EXCEPT !.out = "state", !.op = cmd]

ip(c) ==
    IF ~c.loaded THEN [c EXCEPT !.out = NoProgramLoaded, !.op = "ip"]
    ELSE [c EXCEPT !.out = "instruction pointer", !.op = "ip"]

Programs ==
    { <<PUSH(1), PUSH(2), ADD, PUSH(6), ADD>>,
      <<PUSH(2), PUSH(6), ADD>>,
      <<PUSH(1), ADD, PUSH(2)>> }
BreakArgs == {"", "second", "0", "1", "2", "3", "4"}

CLIStep(c) ==
    /\ vmcli' = c
    /\ UNCHANGED <<bcContracts, bcStorage, bcAssets, bcHeight, bcChain, heap, param, wallet,
                   ic, runs, steps>>

CLILoadHex(prog) == CLIStep(loadhex(vmcli, prog))
CLIBreak(arg) == CLIStep(break(vmcli, arg))
CLICont == vmcli.state \in {"NONE", "BREAK"} /\ CLIStep(cont(vmcli, "cont"))
CLIRun == vmcli.state \in {"NONE", "BREAK"} /\ CLIStep(cont(vmcli, "run"))
CLIIp == CLIStep(ip(vmcli))

NextCLI ==
    \/ \E prog \in Programs : CLILoadHex(prog)
    \/ \E arg \in BreakArgs : CLIBreak(arg)
    \/ CLICont
    \/ CLIRun
    \/ CLIIp

Spec == Init /\ [][Next]_vars

\* the command line starts with no program loaded
SpecCLI == InitManifest /\ [][NextCLI]_vars

\* the wallet starts empty, as NewWallet makes it
SpecWallet == InitManifest /\ [][NextWallet]_vars

SpecManifest == InitManifest /\ [][NextManifest]_vars

SpecBuffers == InitBuffers /\ [][NextBuffers]_vars

SpecHandles == InitHandles /\ [][NextHandles]_vars

SpecAssets == InitAssets /\ [][NextAssets]_vars

SpecLedger == InitLedger /\ [][NextLedger]_vars

SpecNamespaces == InitNamespaces /\ [][NextNamespaces]_vars

SpecFind == InitFind /\ [][NextFind]_vars

SpecLifecycle == InitLifecycle /\ [][NextLifecycle]_vars

SpecConcurrent == InitConcurrent /\ [][NextConcurrent]_vars

(***************************************************************************)
(* Properties.                                                             *)
(***************************************************************************)
WriteEligible(e) == ic[e].trigger = Application \/ ic[e].trigger = ApplicationR

\* the item put and delete judge: the staged one, else the committed one
CurrentItem(e, h, k) ==
    LET inMem == getStorageItemFromStore(ic[e].mem, h, k)
    IN  IF inMem.nil THEN GetStorageItem(h, k) ELSE inMem

Faulted(e, err) == ic[e].state = "fault" /\ ic[e].err = err

\* get(stc, key) by e succeeds and pushes v
GetReturns(e, stc, key, v) ==
    storageGet(e, stc, key).err = "OK" /\ storageGet(e, stc, key).push = PushBytes(v)

\* a step of e that leaves it in the same execution
StaysRunning(e) == Running(e) /\ Running(e)'

\* C1: within one execution, once put(ctx, k, v, false) has succeeded (through
\* Put, or PutEx with a flag other than 1), get(ctx, k) returns v, with nothing
\* committed, and goes on returning v over every step that is no put or delete
\* of that key in the staged store.
C1_PutThenGet ==
    [][\A e \in Execs : StaysRunning(e) =>
       \A stc \in StorageContexts, key \in Keys, v \in Values :
          /\ ( /\ ic'[e].call = Call("put", stc, key)
               /\ StoragePut(e, stc, key, v) \/ StoragePutEx(e, stc, key, v, 0) )
             => /\ GetReturns(e, stc, key, v)'
                /\ bcStorage' = bcStorage
          /\ ( /\ StaysRunning(e)
               /\ ic[e].mem.si[<<stc.ScriptHash, key>>] = Present(StorageItem(v, FALSE))
               /\ GetReturns(e, stc, key, v)
               /\ ic'[e].mem.si[<<stc.ScriptHash, key>>] = ic[e].mem.si[<<stc.ScriptHash, key>>]
               /\ storageGet(e, stc, key).err' = "OK" )
             => GetReturns(e, stc, key, v)'
      ]_vars

\* a get that returned v right after v was staged, while the ledger holds
\* something else under that key
C1_Witness ==
    \E e \in Execs, v \in Values :
        /\ Running(e) /\ ic[e].call.op = "get" /\ ic[e].err = "OK"
        /\ ic[e].push = PushBytes(v)
        /\ ic[e].mem.si[<<ic[e].call.stc.ScriptHash, ic[e].call.key>>]
               = Present(StorageItem(v, FALSE))
        /\ GetStorageItem(ic[e].call.stc.ScriptHash, ic[e].call.key).Value # v

\* C2: after delete(ctx, k) succeeds on a key with a non-empty committed item,
\* get(ctx, k) returns the empty byte sequence.
C2_DeleteThenGetEmpty ==
    [][\A e \in Execs, stc \in StorageContexts, key \in Keys :
          ( /\ StorageDelete(e, stc, key)
            /\ StaysRunning(e)
            /\ ~GetStorageItem(stc.ScriptHash, key).nil
            /\ GetStorageItem(stc.ScriptHash, key).Value # Empty )
          => GetReturns(e, stc, key, Empty)'
      ]_vars

\* a put of e through stc under key: Put, or PutEx with any flag (each of
\* them leaves the call in the context)
PutStep(e, stc, key, v) ==
    /\ ic'[e].call = Call("put", stc, key)
    /\ StoragePut(e, stc, key, v) \/ \E flag \in Flags : StoragePutEx(e, stc, key, v, flag)

\* a delete, a get of e through stc under key
DeleteStep(e, stc, key) ==
    ic'[e].call = Call("delete", stc, key) /\ StorageDelete(e, stc, key)
GetStep(e, stc, key) ==
    ic'[e].call = Call("get", stc, key) /\ StorageGet(e, stc, key)

\* C3: a put (with any value and any flag) under a key whose current item,
\* staged or committed, is const never succeeds and changes neither the staged
\* store nor the ledger; when the trigger allows writes, the context is
\* writable and its contract is valid, the error is ConstViolation.
C3_ConstPutFails ==
    [][\A e \in Execs : ic'[e].call.op = "put" =>
       \A stc \in StorageContexts, key \in Keys, v \in Values :
          ( /\ PutStep(e, stc, key, v)
            /\ CurrentItem(e, stc.ScriptHash, key).IsConst )
          => /\ ic'[e].state = "fault"
             /\ ic'[e].mem = ic[e].mem
             /\ bcStorage' = bcStorage
             /\ ( WriteEligible(e) /\ ~stc.ReadOnly /\ checkStorageContext(stc) = "OK" )
                => Faulted(e, "ConstViolation")'
      ]_vars

\* a put on a committed const item has faulted and the item is as it was
C3_Witness ==
    \E e \in Execs :
        /\ Faulted(e, "ConstViolation") /\ ic[e].call.op = "put"
        /\ GetStorageItem(ic[e].call.stc.ScriptHash, ic[e].call.key) = StorageItem(<<1>>, TRUE)

\* C4: a delete under a key whose current item, staged or committed, is const
\* never succeeds and stages no tombstone (with ConstViolation when the
\* trigger allows writes, the context is writable and its contract is valid);
\* and no put or delete step, of any execution through any context, changes
\* what get returns for a key whose item is const.
C4_ConstKeyImmutable ==
    [][\A e \in Execs : ic'[e].call.op \in {"put", "delete"} =>
       \A stc \in StorageContexts, key \in Keys :
          /\ ( /\ DeleteStep(e, stc, key)
               /\ CurrentItem(e, stc.ScriptHash, key).IsConst )
             => /\ ic'[e].state = "fault"
                /\ ic'[e].mem = ic[e].mem
                /\ bcStorage' = bcStorage
                /\ ( WriteEligible(e) /\ ~stc.ReadOnly /\ checkStorageContext(stc) = "OK" )
                   => Faulted(e, "ConstViolation")'
          /\ ( DeleteStep(e, stc, key) \/ \E v \in Values : PutStep(e, stc, key, v) )
             => \A o \in Execs, c \in Cells :
                   ( /\ Running(o) /\ Running(o)'
                     /\ CurrentItem(o, c[1], c[2]).IsConst )
                   => /\ CurrentItem(o, c[1], c[2])' = CurrentItem(o, c[1], c[2])
                      /\ storageGet(o, StorageContext(c[1], TRUE), c[2]).push'
                            = storageGet(o, StorageContext(c[1], TRUE), c[2]).push
      ]_vars

\* a delete on a committed const item has faulted and the item is as it was
C4_Witness ==
    \E e \in Execs :
        /\ Faulted(e, "ConstViolation") /\ ic[e].call.op = "delete"
        /\ GetStorageItem(ic[e].call.stc.ScriptHash, ic[e].call.key) = StorageItem(<<1>>, TRUE)
        /\ ic[e].mem.si[<<ic[e].call.stc.ScriptHash, ic[e].call.key>>] = NoEntry

\* C5: through a read-only context, whatever contract owns it, a put (of a key
\* of at most 1024 bytes) and a delete under a trigger that allows writes fail
\* with ReadOnlyContext and stage nothing; and after a put through the
\* writable context of the same contract, get through the read-only one
\* returns the value put.
C5_ReadOnlyRejectsWrites ==
    [][\A e \in Execs : ic'[e].call.op \in {"put", "delete", "get"} =>
       \A h \in Hashes \cap {ic'[e].call.stc.ScriptHash}, key \in Keys \cap {ic'[e].call.key},
          v \in Values :
          /\ ( /\ PutStep(e, StorageContext(h, TRUE), key, v)
               /\ WriteEligible(e) /\ KeyLen(key) <= MaxStorageKeyLen )
             => /\ Faulted(e, "ReadOnlyContext")'
                /\ ic'[e].mem = ic[e].mem
                /\ bcStorage' = bcStorage
          /\ ( /\ DeleteStep(e, StorageContext(h, TRUE), key)
               /\ WriteEligible(e) )
             => /\ Faulted(e, "ReadOnlyContext")'
                /\ ic'[e].mem = ic[e].mem
                /\ bcStorage' = bcStorage
          /\ ( /\ PutStep(e, StorageContext(h, FALSE), key, v)
               /\ StaysRunning(e) )
             => GetReturns(e, StorageContext(h, TRUE), key, v)'
          /\ ( /\ GetStep(e, StorageContext(h, TRUE), key)
               /\ StaysRunning(e) )
             => ic'[e].push = storageGet(e, StorageContext(h, FALSE), key).push
      ]_vars

\* a get through a read-only context has returned the value staged through the
\* writable context of the same contract
C5_Witness ==
    \E e \in Execs, v \in Values :
        /\ Running(e) /\ ic[e].call.op = "get" /\ ic[e].call.stc.ReadOnly
        /\ ic[e].push = PushBytes(v)
        /\ ic[e].mem.si[<<ic[e].call.stc.ScriptHash, ic[e].call.key>>].st = "put"
        /\ ic[e].mem.si[<<ic[e].call.stc.ScriptHash, ic[e].call.key>>].item.Value = v
        /\ GetStorageItem(ic[e].call.stc.ScriptHash, ic[e].call.key).Value # v

C8_GetLookupOrder ==
    \A e \in Execs :
        ic[e].call.op = "get"
        => LET h == ic[e].call.stc.ScriptHash
               entry == ic[e].mem.si[<<h, ic[e].call.key>>]
               committed == bcStorage[<<h, ic[e].call.key>>]
           IN  /\ Running(e)
                  => ic[e].push = PushBytes(IF entry.st = "put" THEN entry.item.Value
                                            ELSE IF ~committed.nil THEN committed.Value
                                            ELSE Empty)
               /\ ic[e].state = "fault"
                  => /\ ic[e].err = "NoStorageCapability"
                     /\ bcContracts[h].nil \/ ~bcContracts[h].HasStorage

\* a get under a staged tombstone has returned the committed value
C8_Witness ==
    \E e \in Execs :
        /\ Running(e) /\ ic[e].call.op = "get"
        /\ ic[e].mem.si[<<ic[e].call.stc.ScriptHash, ic[e].call.key>>] = Tombstone
        /\ ~bcStorage[<<ic[e].call.stc.ScriptHash, ic[e].call.key>>].nil
        /\ ic[e].push = PushBytes(bcStorage[<<ic[e].call.stc.ScriptHash, ic[e].call.key>>].Value)

\* the contract record execution e sees under h: the staged one, else the
\* committed one
VisibleContract(e, h) ==
    CASE ic[e].mem.cs[h].st = "put" -> ic[e].mem.cs[h].cs
      [] ic[e].mem.cs[h].st = "del" -> NilContract
      [] OTHER -> bcContracts[h]

\* C9: a create (Application trigger, fields within their limits) for a script
\* hash under which the execution sees a contract, staged by itself or
\* committed by an earlier execution, returns that contract whatever metadata
\* is passed, and stages nothing; a create for a free hash stages the
\* contract passed and returns it.
C9_CreateIdempotent ==
    [][\A e \in Execs, spec \in ContractSpecs :
          ( /\ ContractCreate(e, spec)
            /\ ic[e].trigger = Application
            /\ NameLen(spec.Name) <= MaxContractStringLen )
          => /\ Running(e)'
             /\ ~VisibleContract(e, spec.Script).nil
                => /\ ic'[e].push = PushContract(VisibleContract(e, spec.Script))
                   /\ ic'[e].mem = ic[e].mem
                   /\ VisibleContract(e, spec.Script)' = VisibleContract(e, spec.Script)
                   /\ bcContracts' = bcContracts
             /\ VisibleContract(e, spec.Script).nil
                => /\ ic'[e].push = PushContract(spec)
                   /\ VisibleContract(e, spec.Script)' = spec
      ]_vars

\* a create with other metadata has returned the contract an earlier
\* execution created and committed, and has staged nothing
C9_Witness ==
    \E e \in Execs :
        /\ Running(e) /\ ic[e].call.op = "create" /\ runs = 2
        /\ ic[e].push = PushContract(bcContracts[ic[e].call.cs.Script])
        /\ ~bcContracts[ic[e].call.cs.Script].nil
        /\ ic[e].call.cs # bcContracts[ic[e].call.cs.Script]
        /\ ic[e].mem = EmptyMem
        /\ \E l \in InitLedgers : l.contracts[ic[e].call.cs.Script].nil /\ l.storage = bcStorage

\* C10: a migrate by contract A (the executing script, with a committed
\* record) to a script hash B that is free copies every storage item of A to
\* B with IsConst reset, removes the record of A, and a get under any of A's
\* keys through A's context then returns the empty byte sequence.
C10_MigrateMovesStorage ==
    [][\A e \in Execs, spec \in ContractSpecs :
          ( /\ ContractMigrate(e, spec)
            /\ StaysRunning(e)
            /\ spec.Script # ic[e].cur
            /\ ~GetContractState(ic[e].cur).nil
            /\ VisibleContract(e, spec.Script).nil )
          => /\ \A k \in GetStorageItems(ic[e].cur) :
                   /\ ic'[e].mem.si[<<spec.Script, k>>]
                         = Present(StorageItem(GetStorageItem(ic[e].cur, k).Value, FALSE))
                   /\ GetReturns(e, StorageContext(ic[e].cur, FALSE), k, Empty)'
             /\ VisibleContract(e, ic[e].cur)'.nil
      ]_vars

\* a step of execution e that is not its merge (which leaves e idle)
HandlerStep(e) == ic'[e] # ic[e] /\ ic'[e].state # "idle"

MergedItem(e, h, k) ==
    CASE ic[e].mem.si[<<h, k>>].st = "put" -> ic[e].mem.si[<<h, k>>].item
      [] ic[e].mem.si[<<h, k>>].st = "del" -> NilItem
      [] OTHER -> bcStorage[<<h, k>>]

\* C11: a migrate by a committed contract A (the executing script) to a script
\* hash B under which the execution sees a contract returns that contract,
\* leaves B's record and every staged or committed item of B as it was, and
\* destroys A with its storage: A's record is removed and a merge of the
\* execution would leave no item under A.
C11_MigrateToExisting ==
    [][\A e \in Execs : ic'[e].call.op = "migrate" =>
       \A spec \in ContractSpecs :
          ( /\ ContractMigrate(e, spec)
            /\ StaysRunning(e)
            /\ spec.Script # ic[e].cur
            /\ ~GetContractState(ic[e].cur).nil
            /\ ~VisibleContract(e, spec.Script).nil )
          => /\ ic'[e].push = PushContract(VisibleContract(e, spec.Script))
             /\ VisibleContract(e, spec.Script)' = VisibleContract(e, spec.Script)
             /\ \A k \in Keys :
                   /\ ic'[e].mem.si[<<spec.Script, k>>] = ic[e].mem.si[<<spec.Script, k>>]
                   /\ MergedItem(e, ic[e].cur, k)'.nil
             /\ VisibleContract(e, ic[e].cur)'.nil
      ]_vars

\* C12: a destroy under the Application trigger does not fault; when the
\* executing script has no committed contract it changes nothing; otherwise
\* the contract lookup misses afterwards and, when the contract declared
\* storage, get through its context returns the empty byte sequence for every
\* key (of at most 1024 bytes), staged or committed before.
C12_DestroyRemovesAll ==
    [][\A e \in Execs :
          ( /\ ic'[e].call.op = "destroy"
            /\ ContractDestroy(e)
            /\ ic[e].trigger = Application )
          => /\ Running(e)'
             /\ GetContractState(ic[e].cur).nil => ic'[e].mem = ic[e].mem
             /\ ~GetContractState(ic[e].cur).nil
                => /\ VisibleContract(e, ic[e].cur)'.nil
                   /\ GetContractState(ic[e].cur).HasStorage
                      => \A k \in Keys :
                            KeyLen(k) <= MaxStorageKeyLen
                            => storageGet(e, StorageContext(ic[e].cur, FALSE), k).push'
                                  = PushBytes(Empty)
      ]_vars

\* C13: get_storage_context on a contract handle pushes the writable context
\* of the contract's script hash when the execution itself has staged that
\* contract, and otherwise, also for a contract that is committed, fails with
\* NotCreatedThisExecution and pushes nothing; it stages nothing either way.
C13_ContextOnlyForCreated ==
    [][\A e \in Execs :
          ( ic'[e].call.op = "getstoragecontext" /\ ContractGetStorageContext(e) )
          => /\ ic'[e].mem = ic[e].mem
             /\ ic[e].mem.cs[ic[e].push.cs.Script].st = "put"
                => /\ Running(e)'
                   /\ ic'[e].push = PushContext(StorageContext(ic[e].push.cs.Script, FALSE))
             /\ ic[e].mem.cs[ic[e].push.cs.Script].st # "put"
                => /\ Faulted(e, "NotCreatedThisExecution")'
                   /\ ic'[e].push = PushNothing
      ]_vars

\* get_storage_context has failed on the handle of a contract that is
\* committed and that the execution has not staged
C13_Witness ==
    \E e \in Execs :
        /\ Faulted(e, "NotCreatedThisExecution") /\ ic[e].call.op = "getstoragecontext"
        /\ ic[e].push = PushNothing
        /\ ~ic[e].call.cs.nil
        /\ bcContracts[ic[e].call.cs.Script] = ic[e].call.cs
        /\ ic[e].mem.cs[ic[e].call.cs.Script].st = "none"

\* a put or delete call that passes every check but the trigger's: key of at
\* most 1024 bytes, writable context of a contract with storage, no const item
ValidWrite(e, stc, key) ==
    /\ KeyLen(key) <= MaxStorageKeyLen
    /\ ~stc.ReadOnly
    /\ checkStorageContext(stc) = "OK"
    /\ ~CurrentItem(e, stc.ScriptHash, key).IsConst

\* C14: put and delete under a trigger other than Application (0x10) and
\* ApplicationR (0x11) fail with TriggerNotApplication and stage nothing,
\* whatever the context, key and value are; no put or delete succeeds under
\* another trigger, and under each of the two an otherwise valid put or
\* delete succeeds.
C14_WriteEligibleTriggers ==
    [][\A e \in Execs : ic'[e].call.op \in {"put", "delete"} =>
       \A stc \in StorageContexts, key \in Keys :
          ( DeleteStep(e, stc, key) \/ \E v \in Values : PutStep(e, stc, key, v) )
          => /\ ~WriteEligible(e)
                => /\ Faulted(e, "TriggerNotApplication")'
                   /\ ic'[e].mem = ic[e].mem
                   /\ bcStorage' = bcStorage
             /\ Running(e)' => ic[e].trigger \in {Application, ApplicationR}
             /\ ( WriteEligible(e) /\ ValidWrite(e, stc, key) ) => Running(e)'
      ]_vars

\* an otherwise valid put under the Verification trigger has faulted
C14_Witness ==
    \E e \in Execs :
        /\ Faulted(e, "TriggerNotApplication") /\ ic[e].call.op = "put"
        /\ ic[e].trigger = Verification
        /\ ValidWrite(e, ic[e].call.stc, ic[e].call.key)

\* what as_read_only returns for a context
AsReadOnly(e, stc) == storageContextAsReadOnly(e, stc).push.stc

\* C20: as_read_only in a running execution never fails and returns, for
\* every context, a read-only context of the same script hash; a context that is read-only already comes
\* back as it is, applying it twice gives what applying it once gives, and
\* the context the script gains by the call is that read-only one, so no
\* chain of calls makes a read-only context writable.
C20_AsReadOnly ==
    [][\A e \in Execs :
          Running(e)
          => \A stc \in StorageContexts :
                /\ storageContextAsReadOnly(e, stc).err = "OK"
                /\ storageContextAsReadOnly(e, stc).mem = ic[e].mem
                /\ AsReadOnly(e, stc).ScriptHash = stc.ScriptHash
                /\ AsReadOnly(e, stc).ReadOnly
                /\ stc.ReadOnly => AsReadOnly(e, stc) = stc
                /\ AsReadOnly(e, AsReadOnly(e, stc)) = AsReadOnly(e, stc)
                /\ ( ic'[e].call = ic[e].call /\ stc \in ic[e].ctxs
                      /\ StorageContextAsReadOnly(e, stc) )
                   => ic'[e].ctxs = ic[e].ctxs \cup {StorageContext(stc.ScriptHash, TRUE)}
      ]_vars

\* the script holds the read-only context of a contract it created and got
\* the writable context of: only as_read_only can have made it
C20_Witness ==
    \E e \in Execs :
        /\ Running(e) /\ runs = 1 /\ steps = 2
        /\ ic[e].call.op = "getstoragecontext"
        /\ ic[e].call.cs.Script # ic[e].cur
        /\ StorageContext(ic[e].call.cs.Script, FALSE) \in ic[e].ctxs
        /\ StorageContext(ic[e].call.cs.Script, TRUE) \in ic[e].ctxs

\* a step of e that ran the handler op
OpStep(e, op) == ic'[e].call.op = op /\ HandlerStep(e)

Found(e) == ic[e].push.items
FindReturned(e) == Running(e) /\ ic[e].call.op = "find" /\ ic[e].push.kind = "iterator"

\* C18: the keys of the sequence a find returns are strictly ascending in
\* byte order from each entry to the next, whatever the order in which the
\* items were collected and whatever the capacity of the prefix.
C18_FindAscending ==
    \A e \in Execs :
        FindReturned(e)
        => \A i \in 1..(Len(Found(e)) - 1) : Less(Found(e)[i][1], Found(e)[i + 1][1])

\* a find with the empty prefix has returned three entries
C18_Witness ==
    \E e \in Execs : FindReturned(e) /\ ic[e].call.key.b = <<>> /\ Len(Found(e)) = 3

\* the committed items of contract h whose key starts with prefix, as (key,
\* value) pairs
CommittedWithPrefix(h, prefix) ==
    { <<KeyBytes(c[2]), bcStorage[c].Value>> :
        c \in {d \in DOMAIN bcStorage : /\ d[1] = h
                                         /\ ~bcStorage[d].nil
                                         /\ HasPrefix(KeyBytes(d[2]), prefix)} }

\* C19: the entries a find returns are exactly the committed items of the
\* context's contract whose key starts with the prefix, each once, whatever
\* the execution has put or deleted before.
C19_FindExactlyCommitted ==
    \A e \in Execs :
        FindReturned(e)
        => /\ {Found(e)[i] : i \in 1..Len(Found(e))} =
                  CommittedWithPrefix(ic[e].call.stc.ScriptHash, ic[e].call.key.b)
           /\ Len(Found(e)) =
                  Cardinality(CommittedWithPrefix(ic[e].call.stc.ScriptHash, ic[e].call.key.b))

\* a step of e that ran one of the contract and asset handlers
LifecycleStep(e) ==
    \/ OpStep(e, "create") \/ OpStep(e, "migrate") \/ OpStep(e, "destroy")
    \/ OpStep(e, "assetcreate") \/ OpStep(e, "assetrenew")

\* C15: contract create, migrate and destroy and asset create and renew
\* under a trigger other than Application (0x10), the second write-eligible
\* trigger included, fault with TriggerNotApplication, push nothing and
\* leave the staged store and the ledger (contracts, storage items, assets)
\* as they were; under Application none of them fails with that error.
C15_ApplicationOnly ==
    [][\A e \in Execs :
          LifecycleStep(e)
          => /\ ic[e].trigger # Application
                => /\ Faulted(e, "TriggerNotApplication")'
                   /\ ic'[e].mem = ic[e].mem
                   /\ ic'[e].push = PushNothing
                   /\ UNCHANGED <<bcContracts, bcStorage, bcAssets>>
             /\ ic[e].trigger = Application => ic'[e].err # "TriggerNotApplication"
      ]_vars

\* a renew of a committed asset under the second write-eligible trigger has
\* faulted
C15_Witness ==
    \E e \in Execs :
        /\ Faulted(e, "TriggerNotApplication") /\ ic[e].call.op = "assetrenew"
        /\ ic[e].trigger = ApplicationR
        /\ ~bcAssets[ic[e].call.as.ID].nil

\* every field of a contract is as long as it may be
AtLimits(spec) ==
    /\ NameLen(spec.Name) = MaxContractStringLen
    /\ spec.Sizes.script = 1024 * 1024
    /\ spec.Sizes.params = 252
    /\ spec.Sizes.version = 252 /\ spec.Sizes.author = 252 /\ spec.Sizes.email = 252
    /\ spec.Sizes.desc = 65536
\* one field is a byte (an entry) longer than it may be
OneOver(spec) ==
    \/ NameLen(spec.Name) = MaxContractStringLen + 1
    \/ spec.Sizes.script = 1024 * 1024 + 1
    \/ spec.Sizes.params = 253
    \/ spec.Sizes.version = 253 \/ spec.Sizes.author = 253 \/ spec.Sizes.email = 253
    \/ spec.Sizes.desc = 65537

\* C17: under the Application trigger, a put with a key of 1024 bytes that is
\* valid otherwise succeeds and one with a key of 1025 bytes faults with
\* KeyTooLarge; a create or migrate of a contract with every field at its
\* limit succeeds and pushes the contract of that script, and one with a
\* field a byte (an entry) over faults with FieldTooLarge; an asset create with a name of 1024 bytes that is valid
\* otherwise succeeds and one with a name of 1025 bytes faults with
\* FieldTooLarge; a call that faults stages nothing.
C17_LimitsExact ==
    [][\A e \in Execs :
          ( HandlerStep(e) /\ ic[e].trigger = Application )
          => /\ ic'[e].call.op = "put"
                => /\ ( KeyLen(ic'[e].call.key) = 1024
                        /\ ValidWrite(e, ic'[e].call.stc, ic'[e].call.key) )
                      => /\ Running(e)'
                         /\ ic'[e].mem.si[<<ic'[e].call.stc.ScriptHash, ic'[e].call.key>>].st = "put"
                   /\ KeyLen(ic'[e].call.key) = 1025
                      => Faulted(e, "KeyTooLarge")' /\ ic'[e].mem = ic[e].mem
             /\ ( ic'[e].call.op = "create" \/ ic'[e].call.op = "migrate" )
                => /\ AtLimits(ic'[e].call.cs)
                      => /\ Running(e)'
                         /\ ic'[e].push.kind = "contract"
                         /\ ic'[e].push.cs.Script = ic'[e].call.cs.Script
                   /\ OneOver(ic'[e].call.cs)
                      => Faulted(e, "FieldTooLarge")' /\ ic'[e].mem = ic[e].mem
             /\ ic'[e].call.op = "assetcreate"
                => \A req \in AssetRequests :
                      ( AssetCreate(e, req) /\ req.atype = Token )
                      => /\ req.nameLen = 1024
                            => /\ Running(e)'
                               /\ ic'[e].mem.as[ic[e].tx].st = "put"
                               /\ ic'[e].mem.as[ic[e].tx].as.NameLen = 1024
                         /\ req.nameLen = 1025
                            => Faulted(e, "FieldTooLarge")' /\ ic'[e].mem = ic[e].mem
      ]_vars

\* a contract with every field at its limit and an asset with a name of 1024
\* bytes are staged
C17_Witness ==
    \E e \in Execs :
        /\ Running(e) /\ ic[e].call.op = "assetcreate"
        /\ ic[e].mem.as[ic[e].tx].st = "put"
        /\ ic[e].mem.as[ic[e].tx].as.NameLen = MaxAssetNameLen
        /\ \E h \in Hashes : /\ ic[e].mem.cs[h].st = "put"
                             /\ AtLimits(ic[e].mem.cs[h].cs)

(***************************************************************************)
(* Witness checks and ledger queries.                                      *)
(***************************************************************************)
\* the script hashes the ledger supplies for the container of e
VerifyingSet(e) ==
    {bcChain.verifying[ic[e].tx].hashes[i] :
        i \in 1..Len(bcChain.verifying[ic[e].tx].hashes)}
LedgerFails(e) == bcChain.verifying[ic[e].tx].err

\* C21: a witness check by script hash pushes true exactly when the hash is
\* among the script hashes the ledger supplies for the current container; a
\* check by public key pushes what the check by the hash of the key's
\* single-signature script would push; when the ledger fails to supply the
\* hashes, either check faults instead of pushing false.
C21_WitnessBySet ==
    [][\A e \in Execs :
          OpStep(e, "checkwitness")
          => LET arg == ic'[e].call.arg
                 hash == Uint160DecodeBytes(arg)
                 key == PublicKeyDecodeBytes(arg)
             IN  /\ (~hash.err /\ ~LedgerFails(e))
                    => /\ Running(e)'
                       /\ ic'[e].push = PushBool(arg.body \in VerifyingSet(e))
                 /\ (hash.err /\ ~key.err /\ ~LedgerFails(e))
                    => /\ Running(e)'
                       /\ ic'[e].push
                          = runtimeCheckWitness(e, HashArg(20, SignatureScriptHash(key.key))).push
                       /\ ic'[e].push = PushBool(SignatureScriptHash(key.key) \in VerifyingSet(e))
                 /\ ((~hash.err \/ ~key.err) /\ LedgerFails(e))
                    => /\ Faulted(e, "LedgerError")'
                       /\ ic'[e].push = PushNothing]_vars

\* a check by key pushed true: the hash of its script is among the hashes
C21_Witness ==
    \E e \in Execs :
        /\ ic[e].call.op = "checkwitness" /\ Running(e)
        /\ ic[e].call.arg = KeyArg(33, 2, "k1", TRUE) /\ ic[e].push = PushBool(TRUE)
\* a check faulted on the ledger's error
C21_WitnessLedgerError ==
    \E e \in Execs : ic[e].call.op = "checkwitness" /\ Faulted(e, "LedgerError")

\* C22: the witness syscall takes a string of 20 bytes for a script hash and
\* only another string for an encoded public key; it pushes the result of the
\* check, and with a string that is neither it faults with
\* InvalidWitnessParameter and pushes nothing.
C22_HashThenKey ==
    [][\A e \in Execs :
          OpStep(e, "checkwitness")
          => LET arg == ic'[e].call.arg
                 hash == Uint160DecodeBytes(arg)
                 key == PublicKeyDecodeBytes(arg)
             IN  /\ ~hash.err
                    => ic'[e].err = checkHashedWitness(e, hash.hash).err
                 /\ (hash.err /\ ~key.err)
                    => ic'[e].err = checkKeyedWitness(e, key.key).err
                 /\ (hash.err /\ key.err)
                    => Faulted(e, "InvalidWitnessParameter")' /\ ic'[e].push = PushNothing
                 /\ Running(e)' => ic'[e].push.kind = "bool"
                 /\ ~Running(e)' => ic'[e].push = PushNothing]_vars

\* a string of 19 bytes was refused
C22_Witness ==
    \E e \in Execs :
        /\ ic[e].call.op = "checkwitness" /\ Faulted(e, "InvalidWitnessParameter")
        /\ ic[e].call.arg = HashArg(19, "A")

\* C23: a block or header lookup reads a string of at most five bytes as a
\* block index whatever its value: it is accepted exactly when the index is
\* within 0..2^32-1 (InvalidBlockIndex otherwise) and then pushes what the
\* lookup by the hash GetHeaderHash gives for the index pushes; a longer
\* string is read as a hash and is a decode error unless it has 32 bytes.
C23_IndexOrHash ==
    [][\A e \in Execs :
          (OpStep(e, "getblock") \/ OpStep(e, "getheader"))
          => LET arg == ic'[e].call.arg
                 i == Int64Of(arg.bytes)
                 byHash == HashArg(32, GetHeaderHash(i.raw))
                 same == IF ic'[e].call.op = "getblock" THEN bcGetBlock(e, byHash)
                         ELSE bcGetHeader(e, byHash)
             IN  /\ arg.len <= 5
                    => IF i.neg \/ LessU(MaxUint32, i.raw)
                       THEN Faulted(e, "InvalidBlockIndex")'
                       ELSE Running(e)' /\ same.err = "OK" /\ ic'[e].push = same.push
                 /\ arg.len > 5
                    => IF arg.len = 32 THEN Running(e)' ELSE Faulted(e, "DecodeError")']_vars

\* the block at index 1 was found by its index
C23_Witness ==
    \E e \in Execs :
        /\ ic[e].call.op = "getblock" /\ Running(e)
        /\ ic[e].call.arg = IntArg(<<1>>)
        /\ ic[e].push = PushItem(BlockItem(Header1, <<"t1", "t2">>))

\* the index 2^32 - 1, five bytes long, was accepted
C23_WitnessFiveBytes ==
    \E e \in Execs :
        /\ ic[e].call.op = "getheader" /\ Running(e)
        /\ ic[e].call.arg = IntArg(<<255, 255, 255, 255, 0>>)
        /\ ic[e].push = PushBytes(Empty)

\* the well-formed argument of a lookup names a stored object
NamesStored(op, arg) ==
    CASE op = "getblock" -> ~GetBlock(getBlockHashFromElement(arg).hash).err
      [] op = "getheader" -> ~GetHeader(getBlockHashFromElement(arg).hash).err
      [] op = "gettransaction" -> ~GetTransaction(arg.body).err
      [] op = "getcontract" -> ~GetContractState(arg.body).nil
WellFormed(op, arg) ==
    CASE op \in {"getblock", "getheader"} -> getBlockHashFromElement(arg).err = "OK"
      [] op = "gettransaction" -> arg.len = 32
      [] op = "getcontract" -> arg.len = 20
Lookups == {"getblock", "getheader", "gettransaction", "getcontract"}

\* C24: a block, header, transaction or contract lookup whose well-formed
\* argument names no stored object does not fault and pushes one empty
\* value; a lookup faults only on a malformed argument.
C24_MissPushesEmpty ==
    [][\A e \in Execs :
          (ic'[e].call.op \in Lookups /\ HandlerStep(e))
          => LET op == ic'[e].call.op
                 arg == ic'[e].call.arg
             IN  /\ (WellFormed(op, arg) /\ ~NamesStored(op, arg))
                    => Running(e)' /\ ic'[e].push = PushBytes(Empty)
                 /\ ~Running(e)' => ~WellFormed(op, arg)]_vars

\* the same for block, header and contract lookups alone
C24_MissPushesEmptyButTransaction ==
    [][\A e \in Execs :
          (ic'[e].call.op \in Lookups \ {"gettransaction"} /\ HandlerStep(e))
          => LET op == ic'[e].call.op
                 arg == ic'[e].call.arg
             IN  /\ (WellFormed(op, arg) /\ ~NamesStored(op, arg))
                    => Running(e)' /\ ic'[e].push = PushBytes(Empty)
                 /\ ~Running(e)' => ~WellFormed(op, arg)]_vars

\* C25: every header accessor applied to a Block handle pushes what it pushes
\* for the handle of that block's header; every accessor of blocks alone
\* (transaction count, transactions, transaction by position) applied to a
\* Header handle faults with WrongHandleType.
C25_BlockAsHeader ==
    [][\A e \in Execs :
          /\ OpStep(e, "headerget")
             => LET item == ic'[e].call.item
                    onHeader == headerGet(e, HeaderItem(item.Base), ic'[e].call.arg.body)
                IN  item.type = "Block"
                    => Running(e)' /\ onHeader.err = "OK" /\ ic'[e].push = onHeader.push
          /\ (OpStep(e, "gettransactioncount") \/ OpStep(e, "gettransactions")
              \/ OpStep(e, "blockgettransaction"))
             => (ic'[e].call.item.type = "Header"
                 => Faulted(e, "WrongHandleType")' /\ ic'[e].push = PushNothing)]_vars

\* the hash of the block at index 1 was read from its Block handle
C25_Witness ==
    \E e \in Execs :
        /\ ic[e].call.op = "headerget" /\ Running(e)
        /\ ic[e].call.item = BlockItem(Header1, <<"t1", "t2">>)
        /\ ic[e].push = PushHash("b1", "reversed")

\* the transaction count was asked of a Header handle
C25_WitnessHeader ==
    \E e \in Execs :
        /\ ic[e].call.op = "gettransactioncount" /\ Faulted(e, "WrongHandleType")
        /\ ic[e].call.item = HeaderItem(Header2)

(***************************************************************************)
(* Asset create and renew.                                                 *)
(***************************************************************************)
\* the conditions of a request for an asset, its precision and amount taken
\* as the integers the script passed
AmountFits(req) ==
    req.amount = -Satoshi \/ req.amount % Pow10(MaxAssetPrecision - req.precision) = 0
FieldsValid(req) ==
    /\ req.atype \in {Currency, Share, Invoice, Token}
    /\ req.nameLen <= MaxAssetNameLen
    /\ req.amount # 0
    /\ req.amount >= -Satoshi
    /\ req.atype = Invoice => req.amount = -Satoshi
    /\ req.precision <= MaxAssetPrecision
    /\ req.atype = Share => req.precision = 0
    /\ req.precision <= MaxAssetPrecision => AmountFits(req)
    /\ req.owner \notin {"malformed", "infinity"}
RequestValid(req) == FieldsValid(req) /\ req.owner = "witnessed" /\ req.admin /\ req.issuer

\* the assets an execution sees are those it saw before the step
SameAssets(e) == \A id \in AssetIDs : GetAssetState(ic'[e].mem, id) = GetAssetState(ic[e].mem, id)

\* C26: asset create under Application succeeds exactly when the request is
\* valid (one of the four types, name within 1024 bytes, amount not zero and
\* not below -1 unit, an Invoice with exactly -1 unit, precision at most 8, a
\* Share with precision 0, amount the sentinel or a multiple of
\* 10^(8-precision), owner a valid point that is not infinity and passes the
\* keyed witness check, admin and issuer decoding); an owner without witness
\* gives WitnessCheckFailed; a request that is not valid faults and persists
\* no asset.
C26_CreateIffValid ==
    [][\A e \in Execs :
          (OpStep(e, "assetcreate") /\ ic[e].trigger = Application)
          => LET req == ic'[e].call.req
             IN  /\ Running(e)' <=> RequestValid(req)
                 /\ (FieldsValid(req) /\ req.owner # "witnessed")
                    => Faulted(e, "WitnessCheckFailed")'
                 /\ ~RequestValid(req) => SameAssets(e) /\ ic'[e].push = PushNothing]_vars

\* the same for precisions that fit a byte
C26_CreateIffValidByte ==
    [][\A e \in Execs :
          (OpStep(e, "assetcreate") /\ ic[e].trigger = Application
           /\ ic'[e].call.req.precision < 256)
          => LET req == ic'[e].call.req
             IN  /\ Running(e)' <=> RequestValid(req)
                 /\ (FieldsValid(req) /\ req.owner # "witnessed")
                    => Faulted(e, "WitnessCheckFailed")'
                 /\ ~RequestValid(req) => SameAssets(e) /\ ic'[e].push = PushNothing]_vars

\* the amounts 1500 and 200000 at precision 3: the first refused, the second
\* accepted
C26_Refused1500 ==
    \E e \in Execs :
        /\ ic[e].call.op = "assetcreate" /\ Faulted(e, "InvalidAssetField")
        /\ ic[e].call.req = AssetRequest(Currency, 1, 1500, 3, "witnessed", TRUE, TRUE)
C26_Accepted200000 ==
    \E e \in Execs :
        /\ ic[e].call.op = "assetcreate" /\ Running(e)
        /\ ic[e].call.req = AssetRequest(Currency, 1, 200000, 3, "witnessed", TRUE, TRUE)
        /\ ic[e].push.kind = "asset" /\ ic[e].push.as.Amount = 200000

\* the checks asset create makes before it looks at the precision pass
BeforePrecision(req) ==
    /\ req.atype \in {Currency, Share, Invoice, Token}
    /\ req.nameLen <= MaxAssetNameLen
    /\ req.amount # 0
    /\ req.amount >= -Satoshi
    /\ req.atype = Invoice => req.amount = -Satoshi

\* C27: asset create with a precision above 8, whatever the integer, faults
\* with InvalidAssetField when the checks before it pass, so the precision of
\* every asset created is at most 8 and is the integer passed.
C27_PrecisionAtMost8 ==
    [][\A e \in Execs :
          (OpStep(e, "assetcreate") /\ ic[e].trigger = Application)
          => LET req == ic'[e].call.req
             IN  /\ (BeforePrecision(req) /\ req.precision > MaxAssetPrecision)
                    => Faulted(e, "InvalidAssetField")'
                 /\ Running(e)'
                    => /\ ic'[e].push.as.Precision <= MaxAssetPrecision
                       /\ ic'[e].push.as.Precision = req.precision]_vars

\* the same for precisions that fit a byte
C27_PrecisionAtMost8Byte ==
    [][\A e \in Execs :
          (OpStep(e, "assetcreate") /\ ic[e].trigger = Application
           /\ ic'[e].call.req.precision < 256)
          => LET req == ic'[e].call.req
             IN  /\ (BeforePrecision(req) /\ req.precision > MaxAssetPrecision)
                    => Faulted(e, "InvalidAssetField")'
                 /\ Running(e)'
                    => /\ ic'[e].push.as.Precision <= MaxAssetPrecision
                       /\ ic'[e].push.as.Precision = req.precision]_vars

\* what the asset created holds besides its expiration
CreatedAsRequested(e, req, as) ==
    /\ ~as.nil
    /\ as.ID = ic[e].tx
    /\ as.AssetType = req.atype /\ as.NameLen = req.nameLen /\ as.Amount = req.amount
    /\ as.Precision = req.precision /\ as.Owner = req.owner

\* C28: an asset created has the hash of the enclosing transaction for its
\* id and the arguments for its fields, the handle pushed is the state
\* persisted, and its expiration is the current height plus 2,000,001 as an
\* integer, whatever the height.
C28_CreatedState ==
    [][\A e \in Execs :
          (OpStep(e, "assetcreate") /\ Running(e)')
          => LET req == ic'[e].call.req
                 as == ic'[e].push.as
             IN  /\ ic'[e].push.kind = "asset"
                 /\ CreatedAsRequested(e, req, as)
                 /\ GetAssetState(ic'[e].mem, ic[e].tx) = as
                 /\ as.Expiration = AddU(bcHeight, ToU(DefaultAssetLifetime))]_vars

\* the same for precisions that fit a byte and heights whose default
\* expiration fits 32 bits
C28_CreatedStateInRange ==
    [][\A e \in Execs :
          (OpStep(e, "assetcreate") /\ Running(e)' /\ ic'[e].call.req.precision < 256
           /\ ~LessU(LastFittingHeight, bcHeight))
          => LET req == ic'[e].call.req
                 as == ic'[e].push.as
             IN  /\ ic'[e].push.kind = "asset"
                 /\ CreatedAsRequested(e, req, as)
                 /\ GetAssetState(ic'[e].mem, ic[e].tx) = as
                 /\ as.Expiration = AddU(bcHeight, ToU(DefaultAssetLifetime))]_vars

\* min(max(E, h + 1) + years * 2,000,000, 2^32 - 1), computed in integers
MaxU(a, b) == IF LessU(a, b) THEN b ELSE a
MinU(a, b) == IF LessU(a, b) THEN a ELSE b
RenewedExpiration(E, h, years) ==
    MinU(AddU(MaxU(E, AddU(h, U(0, 1))), ToU(years * BlocksPerYear)), MaxUint32)

\* C29: renew of an asset with expiration E at height h by a number of years
\* that is not negative persists and pushes
\* min(max(E, h + 1) + years * 2,000,000, 2^32 - 1), also for 256 years and
\* more; the value pushed is the value persisted.
C29_RenewedValue ==
    [][\A e \in Execs :
          (OpStep(e, "assetrenew") /\ Running(e)')
          => LET id == ic'[e].call.as.ID
                 E == GetAssetState(ic[e].mem, id).Expiration
                 expected == RenewedExpiration(E, bcHeight, ic'[e].call.years)
             IN  /\ ic'[e].push = PushNum(expected)
                 /\ GetAssetState(ic'[e].mem, id).Expiration = expected]_vars

\* the same for years that fit a byte and heights below 2^32 - 1
C29_RenewedValueInRange ==
    [][\A e \in Execs :
          (OpStep(e, "assetrenew") /\ Running(e)' /\ ic'[e].call.years < 256
           /\ bcHeight # MaxUint32)
          => LET id == ic'[e].call.as.ID
                 E == GetAssetState(ic[e].mem, id).Expiration
                 expected == RenewedExpiration(E, bcHeight, ic'[e].call.years)
             IN  /\ ic'[e].push = PushNum(expected)
                 /\ GetAssetState(ic'[e].mem, id).Expiration = expected]_vars

\* C30: a renew never persists an expiration below the one the asset had,
\* neither the expiration persisted nor the value pushed exceeds 2^32 - 1,
\* and a renew by 0 years of an asset whose expiration is at least the
\* height plus one leaves the expiration as it was; so after every sequence
\* of renews.
C30_RenewMonotone ==
    [][\A e \in Execs :
          (OpStep(e, "assetrenew") /\ Running(e)')
          => LET id == ic'[e].call.as.ID
                 E == GetAssetState(ic[e].mem, id).Expiration
                 after == GetAssetState(ic'[e].mem, id).Expiration
             IN  /\ ~LessU(after, E)
                 /\ ~LessU(MaxUint32, after)
                 /\ ic'[e].push.kind = "num" /\ ~LessU(MaxUint32, ic'[e].push.num)
                 /\ (ic'[e].call.years = 0 /\ ~LessU(E, AddU(bcHeight, U(0, 1))))
                    => after = E]_vars

\* an asset at 2^32 - 1 was renewed by a year and stayed there
C30_Witness ==
    \E e \in Execs :
        /\ ic[e].call.op = "assetrenew" /\ Running(e)
        /\ ic[e].call.years = 1
        /\ ic[e].call.as.Expiration = MaxUint32
        /\ ic[e].push = PushNum(MaxUint32)
        /\ GetAssetState(ic[e].mem, ic[e].call.as.ID).Expiration = MaxUint32

\* an asset was renewed by 0 years and kept its expiration
C30_WitnessZeroYears ==
    \E e \in Execs :
        /\ ic[e].call.op = "assetrenew" /\ Running(e)
        /\ ic[e].call.years = 0
        /\ bcHeight = U(0, 7)
        /\ ic[e].call.as.Expiration = U(30, 33926)
        /\ GetAssetState(ic[e].mem, ic[e].call.as.ID).Expiration = U(30, 33926)

(***************************************************************************)
(* Handles and buffers.                                                    *)
(***************************************************************************)
\* C31: renew computes from the asset stored under the id of the handle and
\* not from the fields of the handle: with any other expiration in the
\* handle the call gives the same result; when no asset is stored under the
\* id, renew faults with NotFound and persists nothing.
C31_RenewRereads ==
    [][\A e \in Execs :
          (OpStep(e, "assetrenew") /\ ic[e].trigger = Application)
          => LET as == ic'[e].call.as
                 years == ic'[e].call.years
             IN  IF GetAssetState(ic[e].mem, as.ID).nil
                 THEN Faulted(e, "NotFound")' /\ SameAssets(e) /\ ic'[e].push = PushNothing
                 ELSE /\ Running(e)'
                      /\ \A x \in HandleExpirations :
                            LET other == assetRenew(e, [as EXCEPT !.Expiration = x], years)
                            IN  /\ other.err = "OK"
                                /\ ic'[e].push = other.push
                                /\ ic'[e].mem = other.mem]_vars

\* a handle that says 1 renewed an asset stored with 2,000,006
C31_Witness ==
    \E e \in Execs :
        /\ ic[e].call.op = "assetrenew" /\ Running(e)
        /\ ic[e].call.as.Expiration = U(0, 1) /\ ic[e].call.years = 0
        /\ ic[e].push = PushNum(U(30, 33926))
        /\ GetAssetState(ic[e].mem, ic[e].call.as.ID).Expiration = U(30, 33926)

\* a handle whose asset is not stored was refused
C31_WitnessNotFound ==
    \E e \in Execs : ic[e].call.op = "assetrenew" /\ Faulted(e, "NotFound")

\* the bytes of the witness's script, the attribute's data, the contract's
\* script and the stored value
DomainBytes(h) ==
    <<h.arrays[h.witness], h.arrays[h.attribute], h.arrays[h.script], h.arrays[h.value]>>
\* the bytes of the buffers the interpreter holds
BufferBytes(h) == [i \in 1..Len(h.estack) |-> h.arrays[h.estack[i]]]

\* the interpreter wrote into one of its buffers
Wrote == heap'.estack = heap.estack /\ heap'.arrays # heap.arrays
\* a domain object got another slice
ObjectChanged ==
    <<heap'.witness, heap'.attribute, heap'.script, heap'.value>>
        # <<heap.witness, heap.attribute, heap.script, heap.value>>

\* C32: a buffer a handler hands to the interpreter (verification script,
\* attribute data, contract script, storage value) is a copy: a write of the
\* interpreter into its buffer leaves the witness, the attribute, the
\* contract and the stored item as they were, and a later change of a domain
\* object leaves the buffers handed out before as they were.
C32_BuffersAreCopies ==
    [][/\ Wrote => DomainBytes(heap') = DomainBytes(heap)
       /\ ObjectChanged
          => \A i \in 1..Len(heap'.estack) : BufferBytes(heap')[i] = BufferBytes(heap)[i]]_vars

\* the same for the witness alone
C32_WitnessScriptIsCopy ==
    [][/\ Wrote => heap'.arrays[heap'.witness] = heap.arrays[heap.witness]
       /\ ObjectChanged
          => \A i \in 1..Len(heap'.estack) : BufferBytes(heap')[i] = BufferBytes(heap)[i]]_vars

\* the interpreter wrote into the copy of the verification script
C32_WitnessWritten ==
    /\ Len(heap.arrays) = 5 /\ heap.estack = <<5>>
    /\ heap.arrays[5] # heap.arrays[heap.witness]

HoldsValidType(x) == x.fits /\ x.val \in ValidParamTypes

\* C34: FromStackItem returns an error for every item that is not a Struct,
\* for every Struct whose length is not 2, for a first element that does not
\* convert to a string, for a second element that is no integer, and for an
\* integer that is not a valid parameter type.
C34_FromStackItemErrors ==
    [][param'.op = "from"
       => LET item == param'.item
          IN  /\ item.type # "Struct" => param'.err # "OK"
              /\ (item.type = "Struct" /\ Len(item.elems) # 2) => param'.err # "OK"
              /\ (item.type = "Struct" /\ Len(item.elems) = 2)
                 => /\ ItemToString(item.elems[1]).err # "OK" => param'.err # "OK"
                    /\ TryInteger(item.elems[2]).err # "OK" => param'.err # "OK"
                    /\ (TryInteger(item.elems[2]).err = "OK"
                        /\ ~HoldsValidType(TryInteger(item.elems[2]).typ))
                       => param'.err # "OK"]_vars

\* the same for the integers that fit an int64
C34_FromStackItemErrorsInt64 ==
    [][param'.op = "from"
       => LET item == param'.item
          IN  /\ item.type # "Struct" => param'.err # "OK"
              /\ (item.type = "Struct" /\ Len(item.elems) # 2) => param'.err # "OK"
              /\ (item.type = "Struct" /\ Len(item.elems) = 2)
                 => /\ ItemToString(item.elems[1]).err # "OK" => param'.err # "OK"
                    /\ TryInteger(item.elems[2]).err # "OK" => param'.err # "OK"
                    /\ (TryInteger(item.elems[2]).err = "OK"
                        /\ TryInteger(item.elems[2]).typ.fits
                        /\ ~HoldsValidType(TryInteger(item.elems[2]).typ))
                       => param'.err # "OK"]_vars

(***************************************************************************)
(* The wallet.                                                             *)
(***************************************************************************)
\* the number of entries of a list equal to id
Count(list, id) == Cardinality({i \in 1..Len(list) : list[i] = id})
\* after is before without one entry equal to id
OneRemoved(before, after, id) ==
    \E i \in 1..Len(before) : before[i] = id /\ after = RemoveAt(before, i)

C35_WitnessRemoved ==
    /\ wallet.op = "RemoveAccount" /\ wallet.arg = "real" /\ wallet.err = "OK"
    /\ wallet.Accounts = <<"real">>

(***************************************************************************)
(* The VM command line.                                                    *)
(***************************************************************************)
\* the first n instructions of prog on an empty stack, one after another
RECURSIVE Straight(_, _)
Straight(prog, n) ==
    IF n = 0 THEN [fault |-> FALSE, stack |-> <<>>]
    ELSE LET before == Straight(prog, n - 1)
         IN  IF before.fault THEN before ELSE Execute(prog[n], before.stack)

\* the breakpoints the program still has ahead of it
Ahead(c) == {b \in c.bps : b > c.ip /\ b < Len(c.prog)}
NextBreakpoint(c) == CHOOSE b \in Ahead(c) : \A o \in Ahead(c) : b <= o

C36_WitnessHalt ==
    /\ vmcli.op = "cont" /\ vmcli.state = "HALT" /\ vmcli.bps = {2, 4}
    /\ vmcli.estack = <<9>>

\* break with no program loaded
C36_WitnessNoProgram ==
    vmcli.op = "break" /\ ~vmcli.loaded /\ vmcli.out = NoProgramLoaded

(***************************************************************************)
(* Namespaces, context validity and ownership.                             *)
(***************************************************************************)
\* what get and find through stc return to e: the error and the value pushed
GetResult(e, stc, key) == <<storageGet(e, stc, key).err, storageGet(e, stc, key).push>>
\* what storageFind reads of the state to make its result of the popped
\* prefix: the contract of the context and the committed items with the prefix
FindReads(stc, prefix) ==
    <<checkStorageContext(stc), GetStorageItemsWithPrefix(stc.ScriptHash, prefix)>>

\* C37: a put or a delete through a context of contract A leaves what get
\* and find return through every context of another contract B as it was,
\* under every key and prefix, the key written under A included (for find:
\* everything it reads to make its result is as it was).
C37_OtherNamespaceUntouched ==
    [][\A e \in Execs :
          ( StaysRunning(e) /\ ic'[e].call.op \in {"put", "delete"} )
          => \A stc \in StorageContexts :
                stc.ScriptHash # ic'[e].call.stc.ScriptHash
                => /\ \A key \in FindKeys : GetResult(e, stc, key)' = GetResult(e, stc, key)
                   /\ \A prefix \in Prefixes :
                         FindReads(stc, prefix)' = FindReads(stc, prefix)
      ]_vars

\* a value was put under A while B holds another value under the same key:
\* get and find through B's context return B's
C37_Witness ==
    \E e \in Execs, v \in Values, w \in Values :
        /\ Running(e) /\ ic[e].call.op = "put" /\ ic[e].err = "OK"
        /\ ic[e].call.stc.ScriptHash = "A"
        /\ ic[e].mem.si[<<"A", ic[e].call.key>>] = Present(StorageItem(v, FALSE))
        /\ v # w
        /\ GetResult(e, StorageContext("B", FALSE), ic[e].call.key) = <<"OK", PushBytes(w)>>
        /\ ~GetStorageItem("B", ic[e].call.key).nil

\* a delete under A of a committed item while B holds a value under the
\* same key
C37_WitnessDelete ==
    \E e \in Execs, w \in Values :
        /\ Running(e) /\ ic[e].call.op = "delete" /\ ic[e].err = "OK"
        /\ ic[e].call.stc.ScriptHash = "A"
        /\ ~GetStorageItem("A", ic[e].call.key).nil
        /\ ic[e].mem.si[<<"A", ic[e].call.key>>].st = "del"
        /\ GetResult(e, StorageContext("B", FALSE), ic[e].call.key) = <<"OK", PushBytes(w)>>


\* the contract of script hash h as execution e sees it was created, was
\* destroyed by e itself
CreatedHere(e, h) == ic[e].mem.cs[h].st = "put"
DestroyedHere(e, h) == ic[e].mem.cs[h].st = "del"

\* get, put, delete and find of e through stc all fail
AllFail(e, stc) ==
    /\ \A key \in Keys :
          /\ storageGet(e, stc, key).err # "OK"
          /\ storageDelete(e, stc, key).err # "OK"
          /\ \A v \in Values : putWithContextAndFlags(e, stc, key, v, FALSE).err # "OK"
    /\ \A order \in RangeOrders(GetStorageItemsWithPrefix(stc.ScriptHash, <<1>>)) :
          storageFind(e, stc, <<1>>, 0, order).err # "OK"

\* C38: the context check judges the contract against what the execution
\* sees: the context that get_storage_context has just returned for a
\* contract with storage created in this execution passes it (a put and a
\* get through it succeed), and a context whose contract this execution has
\* destroyed fails it on every get, put, delete and find.
C38_CheckSeesExecution ==
    \A e \in Execs :
        Running(e) =>
        /\ ( /\ ic[e].call.op = "getstoragecontext" /\ ic[e].push.kind = "context"
             /\ CreatedHere(e, ic[e].push.stc.ScriptHash)
             /\ ic[e].mem.cs[ic[e].push.stc.ScriptHash].cs.HasStorage )
           => /\ checkStorageContext(ic[e].push.stc) = "OK"
              /\ putWithContextAndFlags(e, ic[e].push.stc, K1, <<1>>, FALSE).err = "OK"
              /\ storageGet(e, ic[e].push.stc, K1).err = "OK"
        /\ \A stc \in ic[e].ctxs :
              DestroyedHere(e, stc.ScriptHash)
              => checkStorageContext(stc) # "OK" /\ AllFail(e, stc)

\* the first half alone, and the second half alone
C38_CreatedContextPasses ==
    \A e \in Execs :
        ( /\ Running(e)
          /\ ic[e].call.op = "getstoragecontext" /\ ic[e].push.kind = "context"
          /\ CreatedHere(e, ic[e].push.stc.ScriptHash)
          /\ ic[e].mem.cs[ic[e].push.stc.ScriptHash].cs.HasStorage )
        => checkStorageContext(ic[e].push.stc) = "OK"
C38_DestroyedContextFails ==
    \A e \in Execs :
        Running(e) =>
        \A stc \in ic[e].ctxs :
            DestroyedHere(e, stc.ScriptHash) => checkStorageContext(stc) # "OK"

\* what the check does judge by: the ledger alone
C38_CheckSeesLedger ==
    \A e \in Execs, stc \in StorageContexts :
        (checkStorageContext(stc) = "OK")
            <=> (~bcContracts[stc.ScriptHash].nil /\ bcContracts[stc.ScriptHash].HasStorage)

\* get_storage_context has returned the context of a contract created here
C38_ReachedCreated ==
    \E e \in Execs :
        /\ Running(e)
        /\ ic[e].call.op = "getstoragecontext" /\ ic[e].push.kind = "context"
        /\ CreatedHere(e, ic[e].push.stc.ScriptHash)
        /\ ic[e].mem.cs[ic[e].push.stc.ScriptHash].cs.HasStorage
        /\ bcContracts[ic[e].push.stc.ScriptHash].nil

\* a get through the context of a contract destroyed here has succeeded
C38_ReachedDestroyed ==
    \E e \in Execs :
        /\ Running(e) /\ ic[e].call.op = "get" /\ ic[e].err = "OK"
        /\ DestroyedHere(e, ic[e].call.stc.ScriptHash)
        /\ ic[e].push.kind = "bytes"


\* C39: every writable storage context an execution comes to hold is the
\* context of the script executing when it was made or of a contract the
\* execution itself has created; none is made for a script hash that the
\* caller names (the handle of a contract looked up by hash gives none).
C39_WritableContextsOwned ==
    [][\A e \in Execs :
          Running(e)' =>
          /\ \A stc \in ic'[e].ctxs \ ic[e].ctxs :
                ~stc.ReadOnly => stc.ScriptHash = ic'[e].cur \/ CreatedHere(e, stc.ScriptHash)'
          /\ ( /\ ic'[e] # ic[e] /\ ic'[e].push.kind = "context"
               /\ ~ic'[e].push.stc.ReadOnly )
             => \/ ic'[e].push.stc.ScriptHash = ic'[e].cur
                \/ ic'[e].mem.cs[ic'[e].push.stc.ScriptHash].st = "put"
      ]_vars

\* get_storage_context has made the writable context of a contract created
\* here, which is not the script executing
C39_Witness ==
    \E e \in Execs :
        /\ Running(e) /\ ic[e].call.op = "getstoragecontext" /\ ic[e].err = "OK"
        /\ ic[e].push.kind = "context" /\ ~ic[e].push.stc.ReadOnly
        /\ ic[e].push.stc.ScriptHash # ic[e].cur
        /\ ic[e].push.stc \in ic[e].ctxs
        /\ CreatedHere(e, ic[e].push.stc.ScriptHash)

\* the handle of a committed contract looked up by hash gave no context
C39_WitnessRefused ==
    \E e \in Execs :
        /\ Faulted(e, "NotCreatedThisExecution") /\ ic[e].call.op = "getstoragecontext"
        /\ ic[e].call.cs.Script # ic[e].cur
        /\ ~bcContracts[ic[e].call.cs.Script].nil
        /\ \A stc \in ic[e].ctxs : stc.ScriptHash = ic[e].cur


\* a migrate step of e whose new script is the script executing, with the
\* contract of that script visible to e
MigrateToSelf(e, spec) ==
    /\ ic'[e].call.op = "migrate"
    /\ ContractMigrate(e, spec)
    /\ StaysRunning(e)
    /\ spec.Script = ic[e].cur
    /\ ~VisibleContract(e, ic[e].cur).nil

\* C40: a migrate whose script is the executing contract's own finds the
\* contract already there, copies nothing and destroys that contract: the
\* handle pushed is the contract found, its record is removed, and a merge
\* of the execution would leave no item under its script hash.
C40_MigrateToSelf ==
    [][\A e \in Execs, spec \in ContractSpecs :
          MigrateToSelf(e, spec)
          => /\ ic'[e].push = PushContract(VisibleContract(e, ic[e].cur))
             /\ \A c \in Cells : ic'[e].mem.si[c] \in {ic[e].mem.si[c], Tombstone}
             /\ VisibleContract(e, ic[e].cur)'.nil
             /\ \A k \in Keys : MergedItem(e, ic[e].cur, k)'.nil
      ]_vars

\* the same for a committed contract, without the storage
C40_MigrateToSelfRecord ==
    [][\A e \in Execs, spec \in ContractSpecs :
          ( MigrateToSelf(e, spec) /\ ~GetContractState(ic[e].cur).nil )
          => /\ ic'[e].push = PushContract(VisibleContract(e, ic[e].cur))
             /\ \A c \in Cells : ic'[e].mem.si[c] \in {ic[e].mem.si[c], Tombstone}
             /\ VisibleContract(e, ic[e].cur)'.nil
             /\ \A k \in Keys :
                   ic[e].mem.si[<<ic[e].cur, k>>].st # "put"
                   => MergedItem(e, ic[e].cur, k)'.nil
      ]_vars

\* the record alone, for a contract visible to the execution
C40_MigrateToSelfRemoves ==
    [][\A e \in Execs, spec \in ContractSpecs :
          MigrateToSelf(e, spec) => VisibleContract(e, ic[e].cur)'.nil
      ]_vars

\* a migrate to the executing script has run on a committed contract with a
\* committed item
C40_Reached ==
    \E e \in Execs :
        /\ Running(e) /\ ic[e].call.op = "migrate" /\ ic[e].err = "OK"
        /\ ic[e].call.cs.Script = ic[e].cur
        /\ ic[e].push.kind = "contract" /\ ic[e].push.cs.Script = ic[e].cur
        /\ ic[e].mem.cs[ic[e].cur].st = "del"
        /\ \E k \in Keys : ~bcStorage[<<ic[e].cur, k>>].nil

\* ... and an item put before the migrate is still staged
C40_ReachedStaged ==
    \E e \in Execs, k \in Keys :
        /\ Running(e) /\ ic[e].call.op = "migrate" /\ ic[e].err = "OK"
        /\ ic[e].call.cs.Script = ic[e].cur
        /\ ic[e].mem.cs[ic[e].cur].st = "del"
        /\ ic[e].mem.si[<<ic[e].cur, k>>].st = "put"

====
